---- MODULE Spec2Model ----
(***************************************************************************)
(* Model of the struct translator of the Cap'n Proto schema compiler       *)
(* (c++/src/capnp/compiler/node-translator.c++): the StructLayout classes  *)
(* (HoleSet, Top, Union, Group, DataLocationUsage) and the StructTranslator*)
(* passes (traversal, ordinal pass, finishGroup pass, sizes).              *)
(*                                                                         *)
(* Offsets are, as in the source, multiples of the size of the thing they  *)
(* locate: a region (lgSize, offset) is bits                               *)
(* [offset * 2^lgSize, (offset + 1) * 2^lgSize).                           *)
(***************************************************************************)
EXTENDS Integers, Sequences, FiniteSets, TLC

\* kj::Maybe<uint> == nullptr
None == -1

\* x << n and x >> n on unsigned values
Shl(x, n) == x * (2 ^ n)
Shr(x, n) == x \div (2 ^ n)
Max(a, b) == IF a >= b THEN a ELSE b

\* -------------------------------------------------------------------------
\* HoleSet<UIntType>

\* KJ_ARRAY_SIZE(holes)
NumHoles == 6

\* HoleSet(): holes{0, 0, 0, 0, 0, 0}; holes[lg] of the source is holes[lg + 1]
EmptyHoles == [i \in 1..NumHoles |-> 0]

\* tryAllocate handing out a recorded hole without clearing its entry
RECURSIVE tryAllocate_keepHole(_, _)
tryAllocate_keepHole(holes, lgSize) ==
  IF lgSize >= NumHoles
    THEN [holes |-> holes, res |-> None]
  ELSE IF holes[lgSize + 1] # 0
    THEN [holes |-> holes, res |-> holes[lgSize + 1]]
  ELSE LET next == tryAllocate_keepHole(holes, lgSize + 1) IN
       IF next.res # None
         THEN [holes |-> [next.holes EXCEPT ![lgSize + 1] = next.res * 2 + 1],
               res |-> next.res * 2]
         ELSE [holes |-> holes, res |-> None]

\* tryAllocate splitting a larger hole without recording the half left over
RECURSIVE tryAllocate_dropRest(_, _)
tryAllocate_dropRest(holes, lgSize) ==
  IF lgSize >= NumHoles
    THEN [holes |-> holes, res |-> None]
  ELSE IF holes[lgSize + 1] # 0
    THEN [holes |-> [holes EXCEPT ![lgSize + 1] = 0], res |-> holes[lgSize + 1]]
  ELSE LET next == tryAllocate_dropRest(holes, lgSize + 1) IN
       IF next.res # None
         THEN [holes |-> next.holes, res |-> next.res * 2]
         ELSE [holes |-> holes, res |-> None]

\* HoleSet::tryAllocate: [holes, res], res = None when no space is found
RECURSIVE tryAllocate(_, _)
tryAllocate(holes, lgSize) ==
  IF lgSize >= NumHoles
    THEN [holes |-> holes, res |-> None]
  ELSE IF holes[lgSize + 1] # 0
    THEN [holes |-> [holes EXCEPT ![lgSize + 1] = 0], res |-> holes[lgSize + 1]]
  ELSE LET next == tryAllocate(holes, lgSize + 1) IN
       IF next.res # None
         THEN [holes |-> [next.holes EXCEPT ![lgSize + 1] = next.res * 2 + 1],
               res |-> next.res * 2]
         ELSE [holes |-> holes, res |-> None]

\* addHolesAtEnd rounding the offset of the next larger hole down instead of up
RECURSIVE addHolesAtEnd_roundDown(_, _, _, _)
addHolesAtEnd_roundDown(holes, lgSize, offset, limitLgSize) ==
  IF lgSize < limitLgSize
    THEN addHolesAtEnd_roundDown(IF lgSize < NumHoles
                                   THEN [holes EXCEPT ![lgSize + 1] = offset]
                                   ELSE holes,
                                 lgSize + 1, offset \div 2, limitLgSize)
    ELSE holes

\* HoleSet::addHolesAtEnd: writes holes[lgSize .. limitLgSize - 1].  A write
\* at an index >= NumHoles is outside the array; it is not stored here; the
\* callers record it in the layout's oob flag.
RECURSIVE addHolesAtEnd(_, _, _, _)
addHolesAtEnd(holes, lgSize, offset, limitLgSize) ==
  IF lgSize < limitLgSize
    THEN addHolesAtEnd(IF lgSize < NumHoles
                         THEN [holes EXCEPT ![lgSize + 1] = offset]
                         ELSE holes,
                       lgSize + 1, (offset + 1) \div 2, limitLgSize)
    ELSE holes

\* The KJ_DREQUIREs of addHolesAtEnd (debug builds only): limit within the
\* array, every target class empty, every offset odd.
RECURSIVE addHolesPre(_, _, _, _)
addHolesPre(holes, lgSize, offset, limitLgSize) ==
  /\ limitLgSize <= NumHoles
  /\ \/ lgSize >= limitLgSize
     \/ /\ holes[lgSize + 1] = 0
        /\ offset % 2 = 1
        /\ addHolesPre(holes, lgSize + 1, (offset + 1) \div 2, limitLgSize)

\* HoleSet::tryExpand: [holes, ok, oob].  With oldLgSize = NumHoles and a
\* nonzero expansionFactor the source reads holes[6], one element past the
\* array: the value found there is not determined by the program, so the
\* comparison is decided by oobMatch; when it matches, the source goes on to
\* write holes[6] = 0 (oob = TRUE records the out-of-bounds write).
RECURSIVE tryExpand(_, _, _, _, _)
tryExpand(holes, oldLgSize, oldOffset, expansionFactor, oobMatch) ==
  IF expansionFactor = 0
    THEN [holes |-> holes, ok |-> TRUE, oob |-> FALSE]
  ELSE IF oldLgSize >= NumHoles
    THEN [holes |-> holes, ok |-> oobMatch, oob |-> oobMatch]
  ELSE IF holes[oldLgSize + 1] # oldOffset + 1
    THEN [holes |-> holes, ok |-> FALSE, oob |-> FALSE]
  ELSE LET r == tryExpand(holes, oldLgSize + 1, Shr(oldOffset, 1),
                          expansionFactor - 1, oobMatch) IN
       IF r.ok
         THEN [holes |-> [r.holes EXCEPT ![oldLgSize + 1] = 0],
               ok |-> TRUE, oob |-> r.oob]
         ELSE [holes |-> holes, ok |-> FALSE, oob |-> FALSE]

\* HoleSet::smallestAtLeast
smallestAtLeast(holes, size) ==
  LET found == {i \in size..(NumHoles - 1) : holes[i + 1] # 0} IN
  IF found = {} THEN None
  ELSE CHOOSE i \in found : \A j \in found : i <= j

\* HoleSet::getFirstWordUsed
RECURSIVE firstWordUsedFrom(_, _)
firstWordUsedFrom(holes, i) ==
  IF i > 0
    THEN IF holes[i] # 1 THEN i ELSE firstWordUsedFrom(holes, i - 1)
    ELSE 0

\* getFirstWordUsed with the loop starting one hole size too low
getFirstWordUsed_skipLargest(holes) == firstWordUsedFrom(holes, NumHoles - 1)

getFirstWordUsed(holes) == firstWordUsedFrom(holes, NumHoles)

\* -------------------------------------------------------------------------
\* StructLayout: Top, Union, Group.
\*
\* The layout objects of one struct translation are kept in one record L:
\*   dataWordCount, pointerCount, holes   Top
\*   unions[u]    Union: parent (a scope), groupCount, discriminantOffset,
\*                dataLocations, pointerLocations
\*   groups[g]    Group: parent (a union), parentDataLocationUsage,
\*                parentPointerLocationUsage, hasMembers
\*   failed       a KJ_ASSERT / KJ_FAIL_ASSERT fired (an exception is thrown)
\*   oob          a write landed outside a holes array
\*   dreq         a KJ_DREQUIRE / KJ_DASSERT (debug builds only) was violated
\* A StructOrGroup& is a scope number: TopScope, or the index of a Group.

TopScope == 0

EmptyLayout ==
  [dataWordCount |-> 0, pointerCount |-> 0, holes |-> EmptyHoles,
   unions |-> << >>, groups |-> << >>,
   failed |-> FALSE, oob |-> FALSE, dreq |-> FALSE]

\* Union(StructOrGroup& parent)
NewUnion(parentScope) ==
  [parent |-> parentScope, groupCount |-> 0, discriminantOffset |-> None,
   dataLocations |-> << >>, pointerLocations |-> << >>]

\* Group(Union& parent)
NewGroup(parentUnion) ==
  [parent |-> parentUnion, parentDataLocationUsage |-> << >>,
   parentPointerLocationUsage |-> 0, hasMembers |-> FALSE]

\* DataLocationUsage(): isUsed(false); lgSizeUsed is left uninitialized by
\* the source and is read only when isUsed is true.
UnusedUsage == [isUsed |-> FALSE, lgSizeUsed |-> 0, holes |-> EmptyHoles]

\* DataLocationUsage(uint lgSize): isUsed(true), lgSizeUsed(lgSize)
UsedUsage(lgSize) == [isUsed |-> TRUE, lgSizeUsed |-> lgSize, holes |-> EmptyHoles]

\* DataLocationUsage::smallestHoleAtLeast
smallestHoleAtLeast(usage, location, lgSize) ==
  IF ~usage.isUsed
    THEN IF lgSize <= location.lgSize THEN location.lgSize ELSE None
  ELSE IF lgSize >= usage.lgSizeUsed
    THEN IF lgSize < location.lgSize THEN lgSize ELSE None
  ELSE IF smallestAtLeast(usage.holes, lgSize) # None
    THEN smallestAtLeast(usage.holes, lgSize)
  ELSE IF usage.lgSizeUsed < location.lgSize THEN usage.lgSizeUsed ELSE None

\* DataLocationUsage::allocateFromHole: [usage, res, dreq]
allocateFromHole(usage, location, lgSize) ==
  LET locationOffset == Shl(location.offset, location.lgSize - lgSize) IN
  IF ~usage.isUsed
    THEN [usage |-> [usage EXCEPT !.isUsed = TRUE, !.lgSizeUsed = lgSize],
          res |-> locationOffset + 0,
          dreq |-> ~(lgSize <= location.lgSize)]
  ELSE IF lgSize >= usage.lgSizeUsed
    THEN [usage |-> [usage EXCEPT
                       !.holes = addHolesAtEnd(usage.holes, usage.lgSizeUsed, 1, lgSize),
                       !.lgSizeUsed = lgSize + 1],
          res |-> locationOffset + 1,
          dreq |-> \/ ~(lgSize < location.lgSize)
                   \/ ~addHolesPre(usage.holes, usage.lgSizeUsed, 1, lgSize)]
  ELSE LET hole == tryAllocate(usage.holes, lgSize) IN
       IF hole.res # None
         THEN [usage |-> [usage EXCEPT !.holes = hole.holes],
               res |-> locationOffset + hole.res,
               dreq |-> FALSE]
         ELSE LET result == Shl(1, usage.lgSizeUsed - lgSize) IN
              [usage |-> [usage EXCEPT
                            !.holes = addHolesAtEnd(usage.holes, lgSize, result + 1,
                                                    usage.lgSizeUsed),
                            !.lgSizeUsed = usage.lgSizeUsed + 1],
               res |-> locationOffset + result,
               dreq |-> \/ ~(usage.lgSizeUsed < location.lgSize)
                        \/ ~addHolesPre(usage.holes, lgSize, result + 1,
                                        usage.lgSizeUsed)]

\* Top::addData with the word count incremented before the offset is taken
\* (++dataWordCount for dataWordCount++)
topAddData_preIncrement(L, lgSize) ==
  LET hole == tryAllocate(L.holes, lgSize) IN
  IF hole.res # None
    THEN [L |-> [L EXCEPT !.holes = hole.holes], res |-> hole.res]
    ELSE LET offset == Shl(L.dataWordCount + 1, 6 - lgSize) IN
         [L |-> [L EXCEPT !.dataWordCount = @ + 1,
                          !.holes = addHolesAtEnd(L.holes, lgSize, offset + 1, NumHoles),
                          !.dreq = @ \/ ~addHolesPre(L.holes, lgSize, offset + 1, NumHoles)],
          res |-> offset]

\* Top::addData: [L, res]
topAddData(L, lgSize) ==
  LET hole == tryAllocate(L.holes, lgSize) IN
  IF hole.res # None
    THEN [L |-> [L EXCEPT !.holes = hole.holes], res |-> hole.res]
    ELSE LET offset == Shl(L.dataWordCount, 6 - lgSize) IN
         [L |-> [L EXCEPT !.dataWordCount = @ + 1,
                          !.holes = addHolesAtEnd(L.holes, lgSize, offset + 1, NumHoles),
                          !.dreq = @ \/ ~addHolesPre(L.holes, lgSize, offset + 1, NumHoles)],
          res |-> offset]

\* Top::tryExpandData: [L, ok]
topTryExpandData(L, oldLgSize, oldOffset, expansionFactor, oobMatch) ==
  LET r == tryExpand(L.holes, oldLgSize, oldOffset, expansionFactor, oobMatch) IN
  [L |-> [L EXCEPT !.holes = r.holes, !.oob = @ \/ r.oob], ok |-> r.ok]

\* The scope operations call each other through the parent references
\* (Group -> Union -> parent scope): they are defined by mutual recursion on
\* the layout record.  oobMatch decides the out-of-bounds comparison of
\* tryExpand, should the call reach it.
RECURSIVE addData(_, _, _, _)
RECURSIVE tryExpandData(_, _, _, _, _, _)

\* Union::addDiscriminant: [L, res].  setDiscriminant is the assignment
\* discriminantOffset = parent.addData(4), r being the result of the call.
setDiscriminant(r, u) ==
  [L |-> [r.L EXCEPT !.unions[u].discriminantOffset = r.res], res |-> TRUE]

\* addDiscriminant allocating 8 bits for the discriminant
addDiscriminant_byte(L, u, oobMatch) ==
  IF L.unions[u].discriminantOffset = None
    THEN setDiscriminant(addData(L, L.unions[u].parent, 3, oobMatch), u)
    ELSE [L |-> L, res |-> FALSE]

\* addDiscriminant allocating whenever it is called (the nullptr test left out)
addDiscriminant_again(L, u, oobMatch) ==
  setDiscriminant(addData(L, L.unions[u].parent, 4, oobMatch), u)

addDiscriminant(L, u, oobMatch) ==
  IF L.unions[u].discriminantOffset = None
    THEN setDiscriminant(addData(L, L.unions[u].parent, 4, oobMatch), u)
    ELSE [L |-> L, res |-> FALSE]

\* Union::newGroupAddingFirstMember allocating the discriminant with the third
\* variant (== 3 for == 2)
newGroupAddingFirstMember_third(L, u, oobMatch) ==
  IF L.unions[u].groupCount + 1 = 3
    THEN addDiscriminant([L EXCEPT !.unions[u].groupCount = @ + 1], u, oobMatch).L
    ELSE [L EXCEPT !.unions[u].groupCount = @ + 1]

\* Union::newGroupAddingFirstMember allocating the discriminant with the
\* first variant (== 1 for == 2)
newGroupAddingFirstMember_first(L, u, oobMatch) ==
  IF L.unions[u].groupCount + 1 = 1
    THEN addDiscriminant([L EXCEPT !.unions[u].groupCount = @ + 1], u, oobMatch).L
    ELSE [L EXCEPT !.unions[u].groupCount = @ + 1]

\* Union::newGroupAddingFirstMember
newGroupAddingFirstMember(L, u, oobMatch) ==
  IF L.unions[u].groupCount + 1 = 2
    THEN addDiscriminant([L EXCEPT !.unions[u].groupCount = @ + 1], u, oobMatch).L
    ELSE [L EXCEPT !.unions[u].groupCount = @ + 1]

\* Group::addVoid counting the group with every member it receives (the
\* hasMembers test left out)
addVoid_everyMember(L, scope, oobMatch) ==
  IF scope = TopScope THEN L
  ELSE newGroupAddingFirstMember([L EXCEPT !.groups[scope].hasMembers = TRUE],
                                 L.groups[scope].parent, oobMatch)

\* Top::addVoid / Group::addVoid
addVoid(L, scope, oobMatch) ==
  IF scope = TopScope THEN L
  ELSE IF ~L.groups[scope].hasMembers
    THEN newGroupAddingFirstMember([L EXCEPT !.groups[scope].hasMembers = TRUE],
                                   L.groups[scope].parent, oobMatch)
    ELSE L

\* Union::addNewDataLocation: [L, res].  addDataLocation is
\* dataLocations.add(DataLocation { lgSize, offset }), r being the result of
\* parent.addData(lgSize).
addDataLocation(r, u, lgSize) ==
  [L |-> [r.L EXCEPT !.unions[u].dataLocations =
                        Append(@, [lgSize |-> lgSize, offset |-> r.res])],
   res |-> r.res]

\* addNewDataLocation giving the union's first location a whole word, whatever
\* the size of the field (lgSize 6 for lgSize)
addNewDataLocation_word(L, u, lgSize, oobMatch) ==
  addDataLocation(addData(L, L.unions[u].parent, 6, oobMatch), u, 6)

addNewDataLocation(L, u, lgSize, oobMatch) ==
  addDataLocation(addData(L, L.unions[u].parent, lgSize, oobMatch), u, lgSize)

\* Union::DataLocation::tryExpandTo, on data location i of union u: [L, ok].
\* expandedTo is what follows the call of parent.tryExpandData, r being its
\* result and location the data location before the call.
expandedTo(r, u, i, location, newLgSize) ==
  IF r.ok
    THEN [L |-> [r.L EXCEPT !.unions[u].dataLocations[i] =
                    [lgSize |-> newLgSize,
                     offset |-> Shr(location.offset, newLgSize - location.lgSize)]],
          ok |-> TRUE]
    ELSE [L |-> r.L, ok |-> FALSE]

tryExpandTo(L, u, i, newLgSize, oobMatch) ==
  IF newLgSize <= L.unions[u].dataLocations[i].lgSize
    THEN [L |-> L, ok |-> TRUE]
    ELSE expandedTo(tryExpandData(L, L.unions[u].parent,
                                  L.unions[u].dataLocations[i].lgSize,
                                  L.unions[u].dataLocations[i].offset,
                                  newLgSize - L.unions[u].dataLocations[i].lgSize,
                                  oobMatch),
                    u, i, L.unions[u].dataLocations[i], newLgSize)

\* DataLocationUsage::tryExpandUsage, on usage i of group g: [L, ok].
\* usageExpanded is what follows the call of location.tryExpandTo, e being its
\* result ([L, TRUE] when the call is not made) and usage the usage before it.
usageExpanded(e, g, i, usage, desiredUsage) ==
  IF ~e.ok
    THEN [L |-> e.L, ok |-> FALSE]
    ELSE [L |-> [e.L EXCEPT
                   !.groups[g].parentDataLocationUsage[i] =
                      [usage EXCEPT
                         !.holes = addHolesAtEnd(usage.holes, usage.lgSizeUsed, 1, desiredUsage),
                         !.lgSizeUsed = desiredUsage],
                   !.oob = @ \/ (desiredUsage > NumHoles /\ usage.lgSizeUsed < desiredUsage),
                   !.dreq = @ \/ ~addHolesPre(usage.holes, usage.lgSizeUsed, 1, desiredUsage)],
          ok |-> TRUE]

tryExpandUsage(L, g, i, desiredUsage, oobMatch) ==
  usageExpanded(
    IF desiredUsage > L.unions[L.groups[g].parent].dataLocations[i].lgSize
      THEN tryExpandTo(L, L.groups[g].parent, i, desiredUsage, oobMatch)
      ELSE [L |-> L, ok |-> TRUE],
    g, i, L.groups[g].parentDataLocationUsage[i], desiredUsage)

\* DataLocationUsage::tryExpand, on usage i of group g: [L, ok].  holesExpanded
\* is the result of holes.tryExpand, r, brought into the layout.
holesExpanded(L, r, g, i) ==
  [L |-> [L EXCEPT !.groups[g].parentDataLocationUsage[i].holes = r.holes,
                   !.oob = @ \/ r.oob],
   ok |-> r.ok]

usageTryExpand(L, g, i, oldLgSize, oldOffset, expansionFactor, oobMatch) ==
  IF oldOffset = 0 /\ L.groups[g].parentDataLocationUsage[i].lgSizeUsed = oldLgSize
    THEN tryExpandUsage(L, g, i, oldLgSize + expansionFactor, oobMatch)
    ELSE holesExpanded(L, tryExpand(L.groups[g].parentDataLocationUsage[i].holes,
                                    oldLgSize, oldOffset, expansionFactor, oobMatch),
                       g, i)

\* DataLocationUsage::tryAllocateByExpanding, on usage i of group g: [L, res].
\* allocatedUnused is what follows location.tryExpandTo(lgSize) in the
\* branch of a usage not yet used, e being the result of the call;
\* allocatedUsed follows tryExpandUsage(newSize) in the other branch, and
\* allocatedInHole follows holes.tryAllocate(lgSize) there (KJ_ASSERT_NONNULL).
allocatedUnused(e, g, i, usage, lgSize) ==
  IF e.ok
    THEN [L |-> [e.L EXCEPT !.groups[g].parentDataLocationUsage[i] =
                    [usage EXCEPT !.isUsed = TRUE, !.lgSizeUsed = lgSize]],
          res |-> Shl(e.L.unions[e.L.groups[g].parent].dataLocations[i].offset,
                      e.L.unions[e.L.groups[g].parent].dataLocations[i].lgSize - lgSize)]
    ELSE [L |-> e.L, res |-> None]

allocatedInHole(L, hole, location, g, i, lgSize) ==
  IF hole.res = None
    THEN \* KJ_ASSERT_NONNULL fails
         [L |-> [L EXCEPT !.failed = TRUE], res |-> None]
    ELSE [L |-> [L EXCEPT !.groups[g].parentDataLocationUsage[i].holes = hole.holes],
          res |-> Shl(location.offset, location.lgSize - lgSize) + hole.res]

allocatedUsed(e, g, i, lgSize) ==
  IF e.ok
    THEN allocatedInHole(e.L,
                         tryAllocate(e.L.groups[g].parentDataLocationUsage[i].holes, lgSize),
                         e.L.unions[e.L.groups[g].parent].dataLocations[i], g, i, lgSize)
    ELSE [L |-> e.L, res |-> None]

tryAllocateByExpanding(L, g, i, lgSize, oobMatch) ==
  IF ~L.groups[g].parentDataLocationUsage[i].isUsed
    THEN allocatedUnused(tryExpandTo(L, L.groups[g].parent, i, lgSize, oobMatch),
                         g, i, L.groups[g].parentDataLocationUsage[i], lgSize)
    ELSE allocatedUsed(
           tryExpandUsage(L, g, i,
                          Max(L.groups[g].parentDataLocationUsage[i].lgSizeUsed, lgSize) + 1,
                          oobMatch),
           g, i, lgSize)

\* Group::tryExpandData: [L, ok].  The size/alignment test at the top of the
\* source function has an empty body, so it has no effect and is not modelled
\* as a guard.
groupTryExpandData(L, g, oldLgSize, oldOffset, expansionFactor, oobMatch) ==
  LET u == L.groups[g].parent
      Contains(i) ==
        LET location == L.unions[u].dataLocations[i] IN
        /\ location.lgSize >= oldLgSize
        /\ Shr(oldOffset, location.lgSize - oldLgSize) = location.offset
      found == {i \in 1..Len(L.groups[g].parentDataLocationUsage) : Contains(i)}
  IN
  IF found # {}
    THEN LET i == CHOOSE k \in found : \A j \in found : k <= j
             location == L.unions[u].dataLocations[i]
             localOldOffset ==
               oldOffset - Shl(location.offset, location.lgSize - oldLgSize)
         IN usageTryExpand(L, g, i, oldLgSize, localOldOffset, expansionFactor, oobMatch)
    ELSE \* KJ_FAIL_ASSERT("Tried to expand field that was never allocated.")
         [L |-> [L EXCEPT !.failed = TRUE], ok |-> FALSE]

\* StructOrGroup::tryExpandData, dispatched on the scope
tryExpandData(L, scope, oldLgSize, oldOffset, expansionFactor, oobMatch) ==
  IF scope = TopScope
    THEN topTryExpandData(L, oldLgSize, oldOffset, expansionFactor, oobMatch)
    ELSE groupTryExpandData(L, scope, oldLgSize, oldOffset, expansionFactor, oobMatch)

\* First loop of Group::addData: one default DataLocationUsage is added for
\* every data location of the parent union the group has not seen yet.
padUsage(usages, n) ==
  [i \in 1..Max(n, Len(usages)) |-> IF i <= Len(usages) THEN usages[i] ELSE UnusedUsage]

\* The first loop of Group::addData taking the first location that reports a
\* hole (first fit), whatever its size
bestLocation_firstFit(usages, locations, lgSize) ==
  LET fits == {i \in 1..Len(locations) :
                 smallestHoleAtLeast(usages[i], locations[i], lgSize) # None}
  IN
  IF fits = {} THEN None
  ELSE CHOOSE i \in fits : \A j \in fits : i <= j

\* First loop of Group::addData: the location whose smallestHoleAtLeast is
\* smallest, the lowest index on ties (*hole < bestSize); None if there is none
bestLocation(usages, locations, lgSize) ==
  LET fits == {i \in 1..Len(locations) :
                 smallestHoleAtLeast(usages[i], locations[i], lgSize) # None}
      Hole(i) == smallestHoleAtLeast(usages[i], locations[i], lgSize)
  IN
  IF fits = {} THEN None
  ELSE CHOOSE i \in fits :
         \A j \in fits : Hole(i) < Hole(j) \/ (Hole(i) = Hole(j) /\ i <= j)

\* Second loop of Group::addData: tryAllocateByExpanding on the locations in
\* index order from i on, stopping at the first that succeeds: [L, res].
\* expandNext is the loop's test of the result r of tryAllocateByExpanding.
RECURSIVE expandLocations(_, _, _, _, _)
expandNext(r, g, i, lgSize, oobMatch) ==
  IF r.res # None THEN r
  ELSE expandLocations(r.L, g, i + 1, lgSize, oobMatch)

expandLocations(L, g, i, lgSize, oobMatch) ==
  IF i > Len(L.unions[L.groups[g].parent].dataLocations) \/ L.failed
    THEN [L |-> L, res |-> None]
    ELSE expandNext(tryAllocateByExpanding(L, g, i, lgSize, oobMatch),
                    g, i, lgSize, oobMatch)

\* Group::addData: [L, res].  The function in the order of the source:
\* addVoid() (groupAddData), the first loop and the allocation from the best
\* hole (addDataInLocations), the second loop (addDataExpanded, x being its
\* result), and the new data location (addDataInNew, n being the result of
\* parent.addNewDataLocation).
addDataInNew(n, g, lgSize) ==
  [L |-> [n.L EXCEPT !.groups[g].parentDataLocationUsage = Append(@, UsedUsage(lgSize))],
   res |-> n.res]

addDataExpanded(x, g, lgSize, oobMatch) ==
  IF x.res # None \/ x.L.failed
    THEN x
    ELSE addDataInNew(addNewDataLocation(x.L, x.L.groups[g].parent, lgSize, oobMatch),
                      g, lgSize)

addDataInBest(L, a, g, best) ==
  [L |-> [L EXCEPT !.groups[g].parentDataLocationUsage[best] = a.usage,
                   !.dreq = @ \/ a.dreq],
   res |-> a.res]

addDataInLocations(L1, g, lgSize, oobMatch) ==
  LET u == L1.groups[g].parent
      locations == L1.unions[u].dataLocations
      usages == padUsage(L1.groups[g].parentDataLocationUsage, Len(locations))
      L2 == [L1 EXCEPT !.groups[g].parentDataLocationUsage = usages]
      best == bestLocation(usages, locations, lgSize)
  IN
  IF best # None
    THEN addDataInBest(L2, allocateFromHole(usages[best], locations[best], lgSize), g, best)
    ELSE addDataExpanded(expandLocations(L2, g, 1, lgSize, oobMatch), g, lgSize, oobMatch)

groupAddData(L, g, lgSize, oobMatch) ==
  addDataInLocations(addVoid(L, g, oobMatch), g, lgSize, oobMatch)

\* StructOrGroup::addData, dispatched on the scope
addData(L, scope, lgSize, oobMatch) ==
  IF scope = TopScope
    THEN topAddData(L, lgSize)
    ELSE groupAddData(L, scope, lgSize, oobMatch)

\* Union::addNewPointerLocation and StructOrGroup::addPointer (Top::addPointer,
\* Group::addPointer): [L, res].  addPointerLocation is
\* pointerLocations.add(parent.addPointer()), r being the result of the call;
\* groupAddPointer is Group::addPointer after its call of addVoid().
RECURSIVE addPointer(_, _, _)
addPointerLocation(r, u) ==
  [L |-> [r.L EXCEPT !.unions[u].pointerLocations = Append(@, r.res)], res |-> r.res]

\* Group::addPointer asking the union for a new pointer location every time
\* (the group's count of the union's locations it has taken is not used)
groupAddPointer_alwaysNew(L1, g, oobMatch) ==
  addPointerLocation(addPointer([L1 EXCEPT !.groups[g].parentPointerLocationUsage = @ + 1],
                                L1.unions[L1.groups[g].parent].parent, oobMatch),
                     L1.groups[g].parent)

groupAddPointer(L1, g, oobMatch) ==
  LET u == L1.groups[g].parent
      used == L1.groups[g].parentPointerLocationUsage
      L2 == [L1 EXCEPT !.groups[g].parentPointerLocationUsage = @ + 1]
  IN
  IF used < Len(L1.unions[u].pointerLocations)
    THEN [L |-> L2, res |-> L1.unions[u].pointerLocations[used + 1]]
    ELSE addPointerLocation(addPointer(L2, L2.unions[u].parent, oobMatch), u)

addPointer(L, scope, oobMatch) ==
  IF scope = TopScope
    THEN [L |-> [L EXCEPT !.pointerCount = @ + 1], res |-> L.pointerCount]
    ELSE groupAddPointer(addVoid(L, scope, oobMatch), scope, oobMatch)

\* -------------------------------------------------------------------------
\* Declarations (the input).  A struct declaration is the sequence of its
\* member declarations in pre-order (code order); member k is
\*   [kind, parent, name, size, ord, type]
\* kind: "field", "union" or "group"; parent: the index of the enclosing
\* member declaration (0: the struct itself); name: a string as a sequence
\* of characters (<< >> for an unnamed union); size: the number of its nested
\* declarations; ord: the explicit ordinal or None; type: for a field, the layout class of its compiled type as computed
\* in the ordinal pass (lgSize), Unread until the ordinal pass compiles it.

LgVoid == -1
LgPointer == -2
Unread == -3

\* lgSize values of the switch of the ordinal pass: BOOL 0, INT8/UINT8 3,
\* INT16/UINT16/ENUM 4, INT32/UINT32/FLOAT32 5, INT64/UINT64/FLOAT64 6,
\* VOID -1, TEXT/DATA/LIST/STRUCT/INTERFACE/OBJECT -2
LgSizes == {LgPointer, LgVoid, 0, 3, 4, 5, 6}

\* Node ids.  The node being translated has the id its creator gave it;
\* a fresh orphan node has id 0.
IdBase == 16
RootId == IdBase
RootName == <<"S">>

\* generateGroupId(parentId, fieldIndex) of parser.h: a pure function, taken
\* here as an injective encoding of the pair that is never 0 or RootId.
generateGroupId(parentId, index) == parentId * IdBase + index + 1

\* schema2::ElementSize
Encodings == {"EMPTY", "BIT", "BYTE", "TWO_BYTES", "FOUR_BYTES", "EIGHT_BYTES",
              "POINTER", "INLINE_COMPOSITE"}

\* A freshly initialised schema2::Field and schema2::Node (all defaults)
NewFieldSchema ==
  [name |-> << >>, codeOrder |-> 0, discriminantValue |-> 0, ordinal |-> None,
   which |-> "none", offset |-> 0, group |-> 0]

NewNode ==
  [id |-> 0, displayName |-> << >>, displayNamePrefixLength |-> 0, scopeId |-> 0,
   isGroup |-> FALSE, discriminantCount |-> 0, discriminantOffset |-> 0,
   hasFields |-> FALSE, fields |-> << >>,
   dataSectionWordSize |-> 0, pointerSectionSize |-> 0,
   preferredListEncoding |-> "EMPTY"]

\* StructTranslator::newGroupNode
newGroupNode(parentNode, name) ==
  LET displayName == parentNode.displayName \o <<".">> \o name IN
  [NewNode EXCEPT !.displayName = displayName,
                  !.displayNamePrefixLength = Len(displayName) - Len(name),
                  !.scopeId = parentNode.id,
                  !.isGroup = TRUE]

\* StructTranslator::MemberInfo.  hasNode tells the constructors apart: the
\* node constructors set unionScope(nullptr), the field constructor sets
\* fieldScope; the two share storage in the source and only the one that was
\* set is read.
NoMember ==
  [exists |-> FALSE, parent |-> None, codeOrder |-> 0, index |-> 0, childCount |-> 0,
   childInitializedCount |-> 0, unionDiscriminantCount |-> 0, isInUnion |-> FALSE,
   hasSchema |-> FALSE, schema |-> NewFieldSchema,
   hasNode |-> FALSE, node |-> NewNode,
   fieldScope |-> None, unionScope |-> None]

\* MemberInfo(schema2::Node::Builder node): the root
RootMember ==
  [NoMember EXCEPT !.exists = TRUE, !.hasNode = TRUE,
                   !.node = [NewNode EXCEPT !.id = RootId, !.displayName = RootName]]

\* MemberInfo(parent, codeOrder, decl, fieldScope, isInUnion)
FieldMember(parent, codeOrder, fieldScope, isInUnion) ==
  [NoMember EXCEPT !.exists = TRUE, !.parent = parent, !.codeOrder = codeOrder,
                   !.isInUnion = isInUnion, !.fieldScope = fieldScope]

\* MemberInfo(parent, codeOrder, decl, node, isInUnion)
NodeMember(parent, codeOrder, node, isInUnion) ==
  [NoMember EXCEPT !.exists = TRUE, !.parent = parent, !.codeOrder = codeOrder,
                   !.isInUnion = isInUnion, !.hasNode = TRUE, !.node = node]

\* std::multimap<uint, MemberInfo*>::insert: kept as a sequence sorted by
\* ordinal, a new entry going after the entries with an equal ordinal
mapInsert(map, ord, member) ==
  LET n == Cardinality({i \in 1..Len(map) : map[i].ord <= ord}) IN
  SubSeq(map, 1, n) \o <<[ord |-> ord, member |-> member]>> \o SubSeq(map, n + 1, Len(map))

\* -------------------------------------------------------------------------
\* StructTranslator.  Its state during one translate() is the record T:
\*   decl               the member declarations read so far
\*   layout             the StructLayout
\*   members            the MemberInfo objects, members[0] being `root` and
\*                      members[k] the one made for declaration k
\*   membersByOrdinal   the multimap, allMembers the vector
\*   groups             translator.groups: the group nodes in creation order
\*   stack              the active traverseTopOrGroup / traverseUnion calls
\*   detector           the DuplicateOrdinalDetector of the ordinal pass
\*   errors             the diagnostics given to the ErrorReporter
\*   failed             an assertion failed or the process crashed
\* A stack frame is one active call: decl (the declaration whose nested
\* declarations it iterates), parent (its MemberInfo& parent), mode
\* ("scope": traverseTopOrGroup, "union": traverseUnion), layout (the scope
\* or the union it lays out in), codeOrder (its local counter; shared when
\* traverseUnion was given the caller's counter), remaining (iterations of
\* its loop still to run), ord / ordMember (the membersByOrdinal insertion
\* its caller makes once it returns).

NewTranslator(rootSize) ==
  [decl |-> << >>,
   layout |-> EmptyLayout,
   members |-> [i \in {0} |-> RootMember],
   membersByOrdinal |-> << >>,
   allMembers |-> << >>,
   groups |-> << >>,
   stack |-> IF rootSize = 0 THEN << >>
             ELSE <<[decl |-> 0, parent |-> 0, mode |-> "scope", layout |-> TopScope, codeOrder |-> 0,
                     shared |-> FALSE, remaining |-> rootSize,
                     ord |-> None, ordMember |-> 0]>>,
   detector |-> [expectedOrdinal |-> 0, lastOrdinalLocation |-> None],
   errors |-> << >>,
   failed |-> FALSE]

SetMember(members, k, v) ==
  [i \in (DOMAIN members) \cup {k} |-> IF i = k THEN v ELSE members[i]]

\* The codeOrder read from the call's own counter also when traverseUnion was
\* given the caller's (an unnamed union numbered independently)
codeOrderOf_independent(stack) == stack[Len(stack)].codeOrder

\* The codeOrder variable the innermost call uses, and codeOrder++ on it
codeOrderOf(stack) ==
  IF stack[Len(stack)].shared THEN stack[Len(stack) - 1].codeOrder
  ELSE stack[Len(stack)].codeOrder

codeOrderInc(stack) ==
  IF stack[Len(stack)].shared
    THEN [stack EXCEPT ![Len(stack) - 1].codeOrder = @ + 1]
    ELSE [stack EXCEPT ![Len(stack)].codeOrder = @ + 1]

\* Returns from the calls whose loops have run out; the caller then does its
\* pending membersByOrdinal.insert.
RECURSIVE unwind(_)
unwind(T) ==
  IF T.stack # << >> /\ T.stack[Len(T.stack)].remaining = 0
    THEN LET f == T.stack[Len(T.stack)] IN
         unwind([T EXCEPT
                   !.stack = SubSeq(@, 1, Len(@) - 1),
                   !.membersByOrdinal =
                      IF f.ord # None THEN mapInsert(@, f.ord, f.ordMember) ELSE @])
    ELSE T

\* ErrorReporter::addErrorOn: a diagnostic is its message, the member
\* declaration it is located at (0: the struct) and the number in its text
Error(msg, at) == [msg |-> msg, at |-> at, n |-> None]
ErrorN(msg, at, n) == [msg |-> msg, at |-> at, n |-> n]

\* Entering traverseUnion / traverseGroup: the members.size() checks, the
\* diagnostic being located at parent.decl
enterErrors(mode, isGroup, size, at) ==
  IF mode = "union" /\ size < 2
    THEN <<Error("Union must have at least two members.", at)>>
  ELSE IF mode = "scope" /\ isGroup /\ size < 1
    THEN <<Error("Group must have at least one member.", at)>>
  ELSE << >>

\* DuplicateNameDetector::check, for the one name collision the declarations
\* read here can have: a second unnamed union in the scope of `parent`
unnamedUnionErrors(parent, at) ==
  IF parent.unionScope # None
    THEN <<Error("An unnamed union is already defined in this scope.", at)>>
    ELSE << >>

Frame(decl, parent, mode, layout, shared, size, ord, ordMember) ==
  [decl |-> decl, parent |-> parent, mode |-> mode, layout |-> layout, codeOrder |-> 0,
   shared |-> shared, remaining |-> size, ord |-> ord, ordMember |-> ordMember]

\* One iteration of the loop of traverseTopOrGroup, on member declaration k = m
traverseTopOrGroupMember(T, k, m) ==
  LET f == T.stack[Len(T.stack)]
      parent == T.members[f.parent]
      codeOrder == codeOrderOf(T.stack)
      counted == [T EXCEPT !.members[f.parent].childCount = @ + 1,
                           !.stack = codeOrderInc(@),
                           !.allMembers = Append(@, k)]
  IN
  IF m.kind = "field"
    THEN [counted EXCEPT
            !.members = SetMember(@, k, FieldMember(f.parent, codeOrder, f.layout, FALSE)),
            !.membersByOrdinal = mapInsert(@, m.ord, k)]
  ELSE IF m.kind = "union"
    THEN LET u == Len(T.layout.unions) + 1
             withUnion == [T EXCEPT !.layout.unions = Append(@, NewUnion(f.layout))]
         IN
         IF m.name = << >>
           THEN \* memberInfo = &parent; subCodeOrder = &codeOrder
                [withUnion EXCEPT
                   !.members = SetMember(@, k, NoMember),
                   !.members[f.parent].unionScope = u,
                   !.errors = @ \o unnamedUnionErrors(parent, k) \o
                                   enterErrors("union", FALSE, m.size, f.parent),
                   !.stack = Append(@, Frame(k, f.parent, "union", u, TRUE, m.size,
                                             m.ord, f.parent))]
           ELSE [withUnion EXCEPT
                   !.members = SetMember([@ EXCEPT ![f.parent].childCount = @ + 1], k,
                      [NodeMember(f.parent, codeOrder, newGroupNode(parent.node, m.name), FALSE)
                         EXCEPT !.unionScope = u]),
                   !.groups = Append(@, k),
                   !.allMembers = Append(@, k),
                   !.errors = @ \o enterErrors("union", FALSE, m.size, k),
                   !.stack = Append(codeOrderInc(@),
                                    Frame(k, k, "union", u, FALSE, m.size, m.ord, k))]
  ELSE \* GROUP_DECL: laid out just like members of the parent
       [counted EXCEPT
          !.members = SetMember(@, k,
             NodeMember(f.parent, codeOrder, newGroupNode(parent.node, m.name), FALSE)),
          !.groups = Append(@, k),
          !.errors = @ \o enterErrors("scope", TRUE, m.size, k),
          !.stack = Append(@, Frame(k, k, "scope", f.layout, FALSE, m.size, None, 0))]

\* One iteration of the loop of traverseUnion, on member declaration k = m
traverseUnionMember(T, k, m) ==
  LET f == T.stack[Len(T.stack)]
      parent == T.members[f.parent]
      codeOrder == codeOrderOf(T.stack)
      g == Len(T.layout.groups) + 1
      counted == [T EXCEPT !.members[f.parent].childCount = @ + 1,
                           !.stack = codeOrderInc(@),
                           !.allMembers = Append(@, k),
                           !.layout.groups = Append(@, NewGroup(f.layout))]
  IN
  IF m.kind = "field"
    THEN \* pretend this field is enclosed in a one-member group
         [counted EXCEPT
            !.members = SetMember(@, k, FieldMember(f.parent, codeOrder, g, TRUE)),
            !.membersByOrdinal = mapInsert(@, m.ord, k)]
  ELSE IF m.kind = "union"
    THEN [T EXCEPT !.members = SetMember(@, k, NoMember),
                   !.errors = Append(@, Error("Unions cannot contain unions.", k))]
  ELSE [counted EXCEPT
          !.members = SetMember(@, k,
             NodeMember(f.parent, codeOrder, newGroupNode(parent.node, m.name), TRUE)),
          !.groups = Append(@, k),
          !.errors = @ \o enterErrors("scope", TRUE, m.size, k),
          !.stack = Append(@, Frame(k, k, "scope", g, FALSE, m.size, None, 0))]

\* The traversal step allocating a union's discriminant as soon as the union
\* is traversed, rather than with the union's second variant
traverseMember_eagerDiscriminant(T, k, m) ==
  LET n == Len(T.stack)
      taken == [T EXCEPT !.stack[n].remaining = @ - 1]
      R == IF T.stack[n].mode = "scope"
             THEN traverseTopOrGroupMember(taken, k, m)
             ELSE traverseUnionMember(taken, k, m)
  IN
  unwind(IF m.kind = "union" /\ T.stack[n].mode = "scope"
           THEN [R EXCEPT !.layout =
                   addDiscriminant(R.layout, Len(R.layout.unions), FALSE).L]
           ELSE R)

\* The traversal step on member declaration k = m: the innermost active loop
\* takes it, and the calls that are finished by it return.
traverseMember(T, k, m) ==
  LET n == Len(T.stack)
      taken == [T EXCEPT !.stack[n].remaining = @ - 1]
  IN
  unwind(IF T.stack[n].mode = "scope"
           THEN traverseTopOrGroupMember(taken, k, m)
           ELSE traverseUnionMember(taken, k, m))

\* -------------------------------------------------------------------------
\* DuplicateOrdinalDetector: [expectedOrdinal, lastOrdinalLocation]; an
\* ordinal's location is the declaration that carries it.

NewDetector == [expectedOrdinal |-> 0, lastOrdinalLocation |-> None]

\* DuplicateOrdinalDetector::check expecting, after a gap, the ordinal after
\* the one it expected (expectedOrdinal + 1 for ordinal + 1)
dupCheck_noResume(detector, ordinal, location) ==
  IF ordinal < detector.expectedOrdinal
    THEN [detector |-> [detector EXCEPT !.lastOrdinalLocation = None],
          errors |-> <<Error("Duplicate ordinal number.", location)>> \o
                     (IF detector.lastOrdinalLocation # None
                        THEN <<Error("originally used here", detector.lastOrdinalLocation)>>
                        ELSE << >>)]
  ELSE IF ordinal > detector.expectedOrdinal
    THEN [detector |-> [detector EXCEPT !.expectedOrdinal = @ + 1],
          errors |-> <<ErrorN("Skipped ordinal", location, detector.expectedOrdinal)>>]
  ELSE [detector |-> [expectedOrdinal |-> detector.expectedOrdinal + 1,
                      lastOrdinalLocation |-> location],
        errors |-> << >>]

\* DuplicateOrdinalDetector::check: [detector, errors]
dupCheck(detector, ordinal, location) ==
  IF ordinal < detector.expectedOrdinal
    THEN [detector |-> [detector EXCEPT !.lastOrdinalLocation = None],
          errors |-> <<Error("Duplicate ordinal number.", location)>> \o
                     (IF detector.lastOrdinalLocation # None
                        THEN <<Error("originally used here", detector.lastOrdinalLocation)>>
                        ELSE << >>)]
  ELSE IF ordinal > detector.expectedOrdinal
    THEN [detector |-> [detector EXCEPT !.expectedOrdinal = ordinal + 1],
          errors |-> <<ErrorN("Skipped ordinal", location, detector.expectedOrdinal)>>]
  ELSE [detector |-> [expectedOrdinal |-> detector.expectedOrdinal + 1,
                      lastOrdinalLocation |-> location],
        errors |-> << >>]

\* -------------------------------------------------------------------------
\* MemberInfo::getSchema and MemberInfo::addMemberSchema, on T.members.
\* getSchema(T, m) is T after m.getSchema(); the Field::Builder it returns is
\* T.members[m].schema.  root.getSchema() dereferences the null parent
\* pointer: the process crashes.
RECURSIVE getSchema(_, _)

\* addMemberSchema: if (!node.getBody().hasFields()) { getSchema(); initFields }
initFields(T, p) ==
  [T EXCEPT !.members[p].node.hasFields = TRUE,
            !.members[p].node.fields = [i \in 1..T.members[p].childCount |-> None]]

withFields(T, p) ==
  IF ~T.members[p].node.hasFields
    THEN initFields(IF T.members[p].parent # None THEN getSchema(T, p) ELSE T, p)
    ELSE T

\* addMemberSchema filling the field list from its end (the entry taken is
\* fields[childCount - 1 - childInitializedCount++])
addMemberSchema_fromEnd(T, p, m) ==
  [T EXCEPT !.members[p].childInitializedCount = @ + 1,
            !.members[p].node.fields[T.members[p].childCount
                                       - T.members[p].childInitializedCount] = m]

\* addMemberSchema: return fields[childInitializedCount++]
addMemberSchema(T, p, m) ==
  [T EXCEPT !.members[p].childInitializedCount = @ + 1,
            !.members[p].node.fields[T.members[p].childInitializedCount + 1] = m]

\* getSchema giving a variant its code order as discriminant value
setDiscriminantValue_codeOrder(T, p, m) ==
  IF T.members[m].isInUnion
    THEN [T EXCEPT !.members[p].unionDiscriminantCount = @ + 1,
                   !.members[m].schema.discriminantValue = T.members[m].codeOrder]
    ELSE T

\* getSchema: if (isInUnion) setDiscriminantValue(parent->unionDiscriminantCount++)
setDiscriminantValue(T, p, m) ==
  IF T.members[m].isInUnion
    THEN [T EXCEPT !.members[p].unionDiscriminantCount = @ + 1,
                   !.members[m].schema.discriminantValue =
                      T.members[p].unionDiscriminantCount]
    ELSE T

getSchema(T, m) ==
  LET member == T.members[m]
      p == member.parent
  IN
  IF member.hasSchema THEN T
  ELSE IF p = None THEN [T EXCEPT !.failed = TRUE]
  ELSE IF ~(T.members[p].childInitializedCount < T.members[p].childCount)
    THEN \* KJ_REQUIRE(childInitializedCount < childCount)
         [T EXCEPT !.failed = TRUE]
  ELSE [setDiscriminantValue(addMemberSchema(withFields(T, p), p, m), p, m) EXCEPT
          !.members[m].index = T.members[p].childInitializedCount,
          !.members[m].hasSchema = TRUE,
          !.members[m].schema.name = T.decl[m].name,
          !.members[m].schema.codeOrder = member.codeOrder]

\* MemberInfo::finishGroup, in two halves.  setUnionNode is the first:
\* d is the layout after unionScope->addDiscriminant(), count the value given
\* to setDiscriminantCount.  setGroupNode is the second: index is the index
\* given to generateGroupId.
setUnionNode(T, m, d, count) ==
  [T EXCEPT !.layout = d,
            !.failed = @ \/ d.failed,
            !.members[m].node.discriminantCount = count,
            !.members[m].node.discriminantOffset =
               d.unions[T.members[m].unionScope].discriminantOffset]

setGroup(T, m) ==
  [T EXCEPT !.members[m].schema.which = "group",
            !.members[m].schema.group = T.members[m].node.id]

setGroupNode(T, m, index) ==
  IF T.members[m].parent # None
    THEN setGroup(getSchema([T EXCEPT !.members[m].node.id =
                               generateGroupId(T.members[T.members[m].parent].node.id,
                                               index)], m), m)
    ELSE T

\* MemberInfo::finishGroup setting the discriminant count from childCount
\* (all the members of the node) instead of unionDiscriminantCount
finishGroup_childCount(T, m, oobMatch) ==
  setGroupNode(IF T.members[m].unionScope # None
                 THEN setUnionNode(T, m,
                        addDiscriminant(T.layout, T.members[m].unionScope, oobMatch).L,
                        T.members[m].childCount)
                 ELSE T,
               m, T.members[m].index)

\* MemberInfo::finishGroup generating the id from codeOrder instead of index
finishGroup_codeOrder(T, m, oobMatch) ==
  setGroupNode(IF T.members[m].unionScope # None
                 THEN setUnionNode(T, m,
                        addDiscriminant(T.layout, T.members[m].unionScope, oobMatch).L,
                        T.members[m].unionDiscriminantCount)
                 ELSE T,
               m, T.members[m].codeOrder)

\* MemberInfo::finishGroup
finishGroup(T, m, oobMatch) ==
  setGroupNode(IF T.members[m].unionScope # None
                 THEN setUnionNode(T, m,
                        addDiscriminant(T.layout, T.members[m].unionScope, oobMatch).L,
                        T.members[m].unionDiscriminantCount)
                 ELSE T,
               m, T.members[m].index)

\* -------------------------------------------------------------------------
\* StructTranslator::translate

\* The body of the ordinal-pass loop for a FIELD_DECL whose compiled type has
\* layout class lgSize: the offset is requested from member.fieldScope, and
\* setOffset stores the result r of the request in the field's schema.
setOffset(T, m, lgSize, r) ==
  [T EXCEPT !.layout = r.L,
            !.failed = @ \/ r.L.failed,
            !.decl[m].type = lgSize,
            !.members[m].schema.which = "regular",
            !.members[m].schema.offset = r.res]

placeField(T, m, lgSize, oobMatch) ==
  setOffset(T, m, lgSize,
            IF lgSize = LgPointer
              THEN addPointer(T.layout, T.members[m].fieldScope, oobMatch)
            ELSE IF lgSize = LgVoid
              THEN [L |-> addVoid(T.layout, T.members[m].fieldScope, oobMatch), res |-> 0]
            ELSE addData(T.layout, T.members[m].fieldScope, lgSize, oobMatch))

\* The body of the ordinal-pass loop for a UNION_DECL; r is the result of
\* member.unionScope->addDiscriminant()
unionized(T, m, r) ==
  [T EXCEPT !.layout = r.L,
            !.failed = @ \/ r.L.failed,
            !.errors = IF r.res THEN @
                       ELSE Append(@, Error("only one field retroactively unionized", m))]

placeUnion(T, m, oobMatch) ==
  unionized(T, m, addDiscriminant(T.layout, T.members[m].unionScope, oobMatch))

\* One iteration of the ordinal-pass loop, on entry pos of membersByOrdinal;
\* lgSize is the layout class of the field's type when the entry is a field.
\* checked is the duplicate-ordinal check, placeMember what follows
\* member.getSchema().
checked(T, c) == [T EXCEPT !.detector = c.detector, !.errors = @ \o c.errors]

placeMember(T, entry, lgSize, oobMatch) ==
  IF T.failed THEN T
  ELSE IF T.decl[entry.member].kind = "field"
    THEN placeField([T EXCEPT !.members[entry.member].schema.ordinal = entry.ord],
                    entry.member, lgSize, oobMatch)
  ELSE IF T.decl[entry.member].kind = "union"
    THEN placeUnion([T EXCEPT !.members[entry.member].schema.ordinal = entry.ord],
                    entry.member, oobMatch)
  ELSE \* KJ_FAIL_ASSERT("Groups don't have ordinals.")
       [T EXCEPT !.members[entry.member].schema.ordinal = entry.ord, !.failed = TRUE]

ordinalStep(T, pos, lgSize, oobMatch) ==
  LET m == T.membersByOrdinal[pos].member
      \* member.decl of the root is a default Declaration::Reader
      hasOrdinal == m # 0 /\ T.decl[m].ord # None
  IN
  placeMember(getSchema(IF hasOrdinal
                          THEN checked(T, dupCheck(T.detector, T.decl[m].ord, m))
                          ELSE T, m),
              T.membersByOrdinal[pos], lgSize, oobMatch)

\* root.finishGroup() and the loop over allMembers from entry i on
RECURSIVE finishMembers(_, _, _)
finishMembers(T, i, oobMatch) ==
  IF i > Len(T.allMembers) \/ T.failed THEN T
  ELSE finishMembers(IF T.decl[T.allMembers[i]].kind = "field" THEN T
                     ELSE finishGroup(T, T.allMembers[i], oobMatch),
                     i + 1, oobMatch)

finishGroups(T, oobMatch) == finishMembers(finishGroup(T, 0, oobMatch), 1, oobMatch)

\* The preferred list encoding chosen at the end of translate
preferredListEncoding(top) ==
  IF top.pointerCount = 0
    THEN IF top.dataWordCount = 0 THEN "EMPTY"
         ELSE IF top.dataWordCount = 1
           THEN CASE getFirstWordUsed(top.holes) = 0 -> "BIT"
                  [] getFirstWordUsed(top.holes) \in {1, 2, 3} -> "BYTE"
                  [] getFirstWordUsed(top.holes) = 4 -> "TWO_BYTES"
                  [] getFirstWordUsed(top.holes) = 5 -> "FOUR_BYTES"
                  [] getFirstWordUsed(top.holes) = 6 -> "EIGHT_BYTES"
           ELSE "INLINE_COMPOSITE"
  ELSE IF top.pointerCount = 1 /\ top.dataWordCount = 0 THEN "POINTER"
  ELSE "INLINE_COMPOSITE"

\* "And fill in the sizes": the root node and every node of translator.groups
fillSizes(T) ==
  LET WithSizes(node) ==
        [node EXCEPT !.dataSectionWordSize = T.layout.dataWordCount,
                     !.pointerSectionSize = T.layout.pointerCount,
                     !.preferredListEncoding = preferredListEncoding(T.layout)]
      InGroups(k) == \E i \in 1..Len(T.groups) : T.groups[i] = k
  IN [T EXCEPT !.members =
        [k \in DOMAIN T.members |->
           IF k = 0 \/ InGroups(k)
             THEN [T.members[k] EXCEPT !.node = WithSizes(@)]
             ELSE T.members[k]]]

\* -------------------------------------------------------------------------
\* The state machine: one struct declaration is read and translated.
\*
\* The declarations explored are those within `limits`, a record fixed by the
\* initial state:
\*   maxMembers   member declarations in the struct, at most
\*   maxDepth     depth of nesting of the active traversal calls, at most
\*   types        layout classes of the field types
\*   unionNames   whether a union may be named (TRUE) and unnamed (FALSE)
\*   unionOrds    whether a union may carry an explicit ordinal
\*   minGroup, minUnion   nested declarations of a group / a union, at least
\*   permute      whether ordinals may differ from the code order
\*   maxOrdinal   None: the ordinals are distinct and, once the declaration
\*                is complete, 0 .. n-1; otherwise every member takes any
\*                ordinal up to maxOrdinal (duplicates and gaps included)

\* Bounds: declarations with fields of every type, and deeper nestings with
\* fields of two sizes and ordinals in code order
MaxMembers == 4
MaxDepth == 3
NestedMaxMembers == 7
NestedMaxDepth == 4

WideLimits ==
  [maxMembers |-> MaxMembers, maxDepth |-> MaxDepth, types |-> LgSizes,
   unionNames |-> {TRUE, FALSE}, unionOrds |-> FALSE, minGroup |-> 0, minUnion |-> 0,
   permute |-> TRUE, maxOrdinal |-> None]

NestedLimits ==
  [maxMembers |-> NestedMaxMembers, maxDepth |-> NestedMaxDepth, types |-> {3, 4},
   unionNames |-> {FALSE}, unionOrds |-> FALSE, minGroup |-> 1, minUnion |-> 2,
   permute |-> FALSE, maxOrdinal |-> None]

\* Declarations in which a union may carry an explicit ordinal
OrdinalLimits ==
  [WideLimits EXCEPT !.types = {LgVoid, 3, 4}, !.unionOrds = TRUE]

\* Declarations whose ordinals may repeat and leave gaps
SparseMaxMembers == 4
SparseMaxOrdinal == 3

SparseLimits ==
  [maxMembers |-> SparseMaxMembers, maxDepth |-> MaxDepth, types |-> {LgVoid, 3},
   unionNames |-> {TRUE}, unionOrds |-> FALSE, minGroup |-> 0, minUnion |-> 0,
   permute |-> TRUE, maxOrdinal |-> SparseMaxOrdinal]

\* -------------------------------------------------------------------------
\* Values: compileBootstrapValue, compileValue and the unfinished-values
\* queue.  V is the part of the NodeTranslator they work on:
\*   targets[t]        the schema Value builders handed out so far
\*   unfinishedValues  the queue of {source, type, target} records
\*   failed            a KJ_FAIL_ASSERT was reached

\* At most this many values are compiled during bootstrap
MaxValues == 3

\* The width of a UInt16 value
Uint16Bits == 16

PrimitiveTypes ==
  {"VOID", "BOOL", "INT8", "INT16", "INT32", "INT64", "UINT8", "UINT16",
   "UINT32", "UINT64", "FLOAT32", "FLOAT64", "ENUM", "TEXT", "DATA"}

CompositeTypes == {"LIST", "STRUCT", "INTERFACE", "OBJECT"}

PointerTypes == {"TEXT", "DATA", "STRUCT", "LIST", "OBJECT"}

\* A schema Value: the member of its union that is set, and what it holds
Value(which, num, text, isNull) ==
  [which |-> which, num |-> num, text |-> text, isNull |-> isNull]

\* The literals a value of the type is written with: an integer that fits
\* UInt16 and one that does not, a string, a bracketed list
Sources(type) ==
  IF type = "UINT16"
    THEN {[which |-> "POSITIVE_INT", num |-> n, text |-> ""] : n \in {7, 2^Uint16Bits + 7}}
  ELSE IF type = "TEXT"
    THEN {[which |-> "STRING", num |-> 0, text |-> "s"]}
  ELSE IF type \in CompositeTypes
    THEN {[which |-> "LIST", num |-> 0, text |-> ""]}
  ELSE {[which |-> "POSITIVE_INT", num |-> 1, text |-> ""]}

NoValues == [targets |-> << >>, unfinishedValues |-> << >>, failed |-> FALSE]

\* builder.initValue(): a new Value, its union at the first member
initValue(V) == [V EXCEPT !.targets = Append(@, Value("VOID", 0, "", FALSE))]

\* Zero for the types held in the data section, a null pointer for the others
compileDefaultDefaultValue(V, type, target) ==
  [V EXCEPT !.targets[target] = Value(type, 0, "", type \in PointerTypes)]

\* Text and UInt16 are compiled, every other type ends in KJ_FAIL_ASSERT
compileValue(V, source, type, target) ==
  IF type = "TEXT"
    THEN [V EXCEPT !.targets[target] = Value("TEXT", 0, source.text, FALSE)]
  ELSE IF type = "UINT16"
    THEN [V EXCEPT !.targets[target] =
                     Value("UINT16", source.num % (2^Uint16Bits), "", FALSE)]
  ELSE [V EXCEPT !.failed = TRUE]

unfinishedValuesAdd(V, source, type, target) ==
  [V EXCEPT !.unfinishedValues =
              Append(@, [source |-> source, type |-> type, target |-> target])]

compileBootstrapValue(V, source, type, target) ==
  IF type \in CompositeTypes
    THEN unfinishedValuesAdd(compileDefaultDefaultValue(V, type, target),
                             source, type, target)
    ELSE compileValue(compileDefaultDefaultValue(V, type, target), source, type, target)

\* One iteration of the loop of finish(), on the entry after the first i
finishValue(V, i) ==
  compileValue(V, V.unfinishedValues[i + 1].source, V.unfinishedValues[i + 1].type,
               V.unfinishedValues[i + 1].target)

\* -------------------------------------------------------------------------
\* Types: compileType.  A TypeExpression is [name, params]; name stands for
\* what resolver.resolve(name) gives: "UNRESOLVED" for nullptr, or the kind
\* of the declaration resolved to.  A schema Type is [which, id, elem], elem
\* holding the element type of a list.

\* The id of the declaration every resolved name of the family resolves to
ResolvedId == 1

Type(which, id, elem) == [which |-> which, id |-> id, elem |-> elem]

\* A new Type builder: its union at the first member
NewType == Type("VOID", 0, << >>)

BuiltinTypes ==
  [BUILTIN_VOID |-> "VOID", BUILTIN_BOOL |-> "BOOL", BUILTIN_INT8 |-> "INT8",
   BUILTIN_INT16 |-> "INT16", BUILTIN_INT32 |-> "INT32", BUILTIN_INT64 |-> "INT64",
   BUILTIN_U_INT8 |-> "UINT8", BUILTIN_U_INT16 |-> "UINT16",
   BUILTIN_U_INT32 |-> "UINT32", BUILTIN_U_INT64 |-> "UINT64",
   BUILTIN_FLOAT32 |-> "FLOAT32", BUILTIN_FLOAT64 |-> "FLOAT64",
   BUILTIN_TEXT |-> "TEXT", BUILTIN_DATA |-> "DATA", BUILTIN_OBJECT |-> "OBJECT"]

DeclTypes ==
  [ENUM_DECL |-> "ENUM", STRUCT_DECL |-> "STRUCT", INTERFACE_DECL |-> "INTERFACE"]

\* What compileType gives: its return value, the target, the diagnostics
Compiled(ok, target, errs) == [ok |-> ok, target |-> target, errors |-> errs]

\* The checks of a name that takes no parameters, its target set
withoutParams(source, target) ==
  IF Len(source.params) # 0
    THEN Compiled(FALSE, target, <<Error("does not accept parameters.", source)>>)
    ELSE Compiled(TRUE, target, << >>)

\* The mutant: the element type of List(Object) left as it is
listOf_keepObject(source, r) ==
  IF ~r.ok THEN Compiled(FALSE, Type("LIST", 0, <<r.target>>), r.errors)
  ELSE IF r.target.which = "OBJECT"
    THEN Compiled(FALSE, Type("LIST", 0, <<r.target>>),
                  r.errors \o <<Error("'List(Object)' is not supported.", source)>>)
  ELSE Compiled(TRUE, Type("LIST", 0, <<r.target>>), r.errors)

\* The list of the element type r
listOf(source, r) ==
  IF ~r.ok THEN Compiled(FALSE, Type("LIST", 0, <<r.target>>), r.errors)
  ELSE IF r.target.which = "OBJECT"
    THEN Compiled(FALSE, Type("LIST", 0, <<Type("VOID", 0, << >>)>>),
                  r.errors \o <<Error("'List(Object)' is not supported.", source)>>)
  ELSE Compiled(TRUE, Type("LIST", 0, <<r.target>>), r.errors)

RECURSIVE compileType(_, _)
compileType(source, target) ==
  IF source.name = "UNRESOLVED" THEN Compiled(FALSE, Type("VOID", 0, << >>), << >>)
  ELSE IF source.name \in DOMAIN DeclTypes
    THEN withoutParams(source, Type(DeclTypes[source.name], ResolvedId, << >>))
  ELSE IF source.name = "BUILTIN_LIST"
    THEN IF Len(source.params) # 1
           THEN Compiled(FALSE, target,
                         <<Error("'List' requires exactly one parameter.", source)>>)
           ELSE listOf(source, compileType(source.params[1], NewType))
  ELSE IF source.name \in DOMAIN BuiltinTypes
    THEN withoutParams(source, Type(BuiltinTypes[source.name], 0, << >>))
  ELSE Compiled(FALSE, target, <<Error("is not a type.", source)>>)

\* The type expressions compiled: names that do not resolve, that resolve to
\* a type or to a constant, with up to MaxParams parameters, lists nested
\* up to MaxTypeDepth
MaxParams == 2
MaxTypeDepth == 3

TypeNames ==
  {"UNRESOLVED", "STRUCT_DECL", "CONST_DECL", "BUILTIN_LIST", "BUILTIN_OBJECT",
   "BUILTIN_U_INT16"}

TypeExpression(name, params) == [name |-> name, params |-> params]

RECURSIVE TypeExpressions(_)
TypeExpressions(depth) ==
  IF depth = 1 THEN {TypeExpression(name, << >>) : name \in TypeNames}
  ELSE TypeExpressions(depth - 1)
       \cup {TypeExpression("BUILTIN_LIST", <<e>>) : e \in TypeExpressions(depth - 1)}
       \cup UNION {{TypeExpression(name, params) :
                      params \in [1..n -> TypeExpressions(1)]} :
                   name \in TypeNames, n \in 1..MaxParams}

\* -------------------------------------------------------------------------
\* Integer literals: compileValueInner on NEGATIVE_INT.  A uint64_t is kept
\* at its width as UintLimbs limbs of LimbBits bits, the least significant
\* first; an int64_t is a sign and a magnitude.

LimbBits == 16
UintLimbs == 4

LimbMax == 2^LimbBits - 1

Uint64Max == [i \in 1..UintLimbs |-> LimbMax]

\* x >> 1
uintShr1(x) ==
  [i \in 1..UintLimbs |->
     (x[i] \div 2) + (IF i < UintLimbs THEN (x[i + 1] % 2) * 2^(LimbBits - 1) ELSE 0)]

\* The carry into limb i of x + 1
RECURSIVE carryInto(_, _)
carryInto(x, i) == IF i = 1 THEN 1 ELSE IF x[i - 1] = LimbMax THEN carryInto(x, i - 1) ELSE 0

\* x + 1, wrapping
uintInc(x) == [i \in 1..UintLimbs |-> (x[i] + carryInto(x, i)) % 2^LimbBits]

\* a > b
RECURSIVE uintGreaterFrom(_, _, _)
uintGreaterFrom(a, b, i) ==
  IF i = 0 THEN FALSE
  ELSE IF a[i] # b[i] THEN a[i] > b[i]
  ELSE uintGreaterFrom(a, b, i - 1)

uintGreater(a, b) == uintGreaterFrom(a, b, UintLimbs)

\* -x on uint64_t: 2^64 - x, wrapping
uintNegate(x) == uintInc([i \in 1..UintLimbs |-> LimbMax - x[i]])

\* implicitCast<int64_t>(x): the two's complement reading of x
toInt64(x) ==
  IF x[UintLimbs] >= 2^(LimbBits - 1)
    THEN [negative |-> TRUE, magnitude |-> uintNegate(x)]
    ELSE [negative |-> FALSE, magnitude |-> x]

\* The mutant: the magnitude 2^63 itself rejected
tooBigToBeNegative_inclusive(nValue) ==
  ~uintGreater(uintInc(uintShr1(Uint64Max)), nValue)

\* nValue > (std::numeric_limits<uint64_t>::max() >> 1) + 1
tooBigToBeNegative(nValue) == uintGreater(nValue, uintInc(uintShr1(Uint64Max)))

\* A DynamicSlot nothing was set in
UnsetSlot == [isSet |-> FALSE, negative |-> FALSE, magnitude |-> [i \in 1..UintLimbs |-> 0]]

slotSet(v) == [isSet |-> TRUE, negative |-> v.negative, magnitude |-> v.magnitude]

\* compileValueInner, case NEGATIVE_INT: the slot and the diagnostics
compileNegativeInt(src, nValue) ==
  IF tooBigToBeNegative(nValue)
    THEN [dst |-> UnsetSlot, errors |-> <<Error("Integer is too big to be negative.", src)>>]
    ELSE [dst |-> slotSet(toInt64(uintNegate(nValue))), errors |-> << >>]

\* The limbs the magnitudes of the literals compiled are made of
LimbValues == {0, 1, 2^(LimbBits - 1) - 1, 2^(LimbBits - 1), LimbMax}

Magnitudes == [1..UintLimbs -> LimbValues]

\* Declarations of 8-bit and 64-bit fields in unions nested in union variants
WordMaxMembers == 6
WordMaxDepth == 5

WordLimits ==
  [maxMembers |-> WordMaxMembers, maxDepth |-> WordMaxDepth, types |-> {3, 6},
   unionNames |-> {FALSE}, unionOrds |-> FALSE, minGroup |-> 1, minUnion |-> 1,
   permute |-> FALSE, maxOrdinal |-> None]

\* Declarations whose fields are pointers and 16-bit values, in unions and
\* groups nested up to four calls deep
PointerMaxMembers == 6
PointerMaxDepth == 4

PointerLimits ==
  [maxMembers |-> PointerMaxMembers, maxDepth |-> PointerMaxDepth, types |-> {LgPointer, 4},
   unionNames |-> {FALSE}, unionOrds |-> FALSE, minGroup |-> 1, minUnion |-> 1,
   permute |-> FALSE, maxOrdinal |-> None]

VARIABLES
  decl, layout, members, membersByOrdinal, allMembers, groups, stack,
  detector, errors, failed,   \* the StructTranslator (the record T above)
  pos,                        \* the position of the ordinal-pass loop
  phase,                      \* where translate() is: "run", "done", "failed"
  limits,                     \* the bounds of the declaration being read
  targets, unfinishedValues,  \* the values (the record V above)
  finishIndex,                \* i of the loop of finish()
  compiled,                   \* the queue entries finish() has called compileValue on
  valuePhase,                 \* "bootstrap", "finish", "returned", or where a
                              \* KJ_FAIL_ASSERT ended: "bootstrapFailed", "finishFailed"
  returned,                   \* the NodeSet finish() returned
  call,                       \* the function called on its own, and its arguments
  result,                     \* what the call returned
  allocated                   \* the regions a Top used on its own has handed out

structVars == <<decl, layout, members, membersByOrdinal, allMembers, groups, stack,
                detector, errors, failed, pos, phase, limits>>

valueVars == <<targets, unfinishedValues, finishIndex, compiled, valuePhase, returned>>

callVars == <<call, result, allocated>>

\* The StructTranslator but for its layout
translatorVars == <<decl, members, membersByOrdinal, allMembers, groups, stack,
                    detector, errors, failed, pos, phase, limits>>

vars == <<decl, layout, members, membersByOrdinal, allMembers, groups, stack,
          detector, errors, failed, pos, phase, limits,
          targets, unfinishedValues, finishIndex, compiled, valuePhase, returned,
          call, result, allocated>>

Values == [targets |-> targets, unfinishedValues |-> unfinishedValues, failed |-> FALSE]

Translator ==
  [decl |-> decl, layout |-> layout, members |-> members,
   membersByOrdinal |-> membersByOrdinal, allMembers |-> allMembers,
   groups |-> groups, stack |-> stack, detector |-> detector,
   errors |-> errors, failed |-> failed]

Becomes(T) ==
  /\ decl' = T.decl
  /\ layout' = T.layout
  /\ members' = T.members
  /\ membersByOrdinal' = T.membersByOrdinal
  /\ allMembers' = T.allMembers
  /\ groups' = T.groups
  /\ stack' = T.stack
  /\ detector' = T.detector
  /\ errors' = T.errors
  /\ failed' = T.failed

\* The name of member declaration k: distinct names of different lengths
Letters == <<"a", "b", "c", "d", "e", "f", "g", "h", "i", "j">>
MemberName(k) ==
  LET c == Letters[((k - 1) % Len(Letters)) + 1] IN
  IF k % 2 = 0 THEN <<"x", c>> ELSE <<c>>

\* The ordinals the declarations read so far carry
UsedOrdinals(d) == {d[i].ord : i \in 1..Len(d)} \ {None}

\* Members still to be read by the active calls
RECURSIVE Pending(_)
Pending(st) ==
  IF st = << >> THEN 0
  ELSE st[Len(st)].remaining + Pending(SubSeq(st, 1, Len(st) - 1))

\* The member declarations that may come next: a field, a group, or a named
\* or unnamed union, with `size` nested declarations and an ordinal no other
\* member carries, within the limits.  The nested declarations of a union
\* declared directly in a union are never read, so none are generated.
NextMembers ==
  LET k == Len(decl) + 1
      f == stack[Len(stack)]
      room == limits.maxMembers - Len(decl) - Pending(stack)
      Sizes(kind) ==
        IF kind = "field" \/ (kind = "union" /\ f.mode = "union") THEN {0}
        ELSE IF Len(stack) >= limits.maxDepth THEN {0} \ (0..(limits.minGroup - 1))
        ELSE (0..room) \ (0..((IF kind = "group" THEN limits.minGroup
                                ELSE limits.minUnion) - 1))
      Free == IF limits.maxOrdinal # None THEN 0..limits.maxOrdinal
              ELSE IF limits.permute
                THEN (0..(limits.maxMembers - 1)) \ UsedOrdinals(decl)
                ELSE {Cardinality(UsedOrdinals(decl))}
      Ords(kind) ==
        IF kind = "group" THEN {None}
        ELSE IF kind = "field" THEN Free
        ELSE {None} \cup (IF limits.unionOrds THEN Free ELSE {})
      Names(kind) ==
        IF kind = "union"
          THEN {IF named THEN MemberName(k) ELSE << >> : named \in limits.unionNames}
          ELSE {MemberName(k)}
  IN UNION {
       {[kind |-> kind, parent |-> f.decl, name |-> name, size |-> size, ord |-> ord,
         type |-> Unread] : name \in Names(kind), size \in Sizes(kind), ord \in Ords(kind)}
       : kind \in {"field", "union", "group"}}

\* The ordinals of a complete declaration are 0 .. n-1
DenseOrdinals(d) == UsedOrdinals(d) = 0..(Cardinality(UsedOrdinals(d)) - 1)

\* No function has been called on its own
NoCall == [op |-> "none"]
NotReturned == [returned |-> FALSE]

Starts(lim) ==
  \E rootSize \in 0..lim.maxMembers :
    LET T == NewTranslator(rootSize) IN
    /\ decl = T.decl
    /\ layout = T.layout
    /\ members = T.members
    /\ membersByOrdinal = T.membersByOrdinal
    /\ allMembers = T.allMembers
    /\ groups = T.groups
    /\ stack = T.stack
    /\ detector = T.detector
    /\ errors = T.errors
    /\ failed = T.failed
    /\ pos = 1
    /\ phase = "run"
    /\ limits = lim
    /\ targets = NoValues.targets
    /\ unfinishedValues = NoValues.unfinishedValues
    /\ finishIndex = 0
    /\ compiled = << >>
    /\ valuePhase = "bootstrap"
    /\ returned = None

InitWithin(lim) ==
  /\ Starts(lim)
  /\ call = NoCall
  /\ result = NotReturned
  /\ allocated = {}

Init == InitWithin(WideLimits)

InitNested == InitWithin(NestedLimits)

InitOrdinals == InitWithin(OrdinalLimits)

InitSparse == InitWithin(SparseLimits)

InitWords == InitWithin(WordLimits)

\* The translator becomes T, a failed one ending translate()
Continues(T, then) ==
  /\ Becomes(T)
  /\ phase' = IF T.failed THEN "failed" ELSE then

\* The declaration read is complete once the outermost call has returned
Reads(T) ==
  /\ (T.stack = << >> /\ limits.maxOrdinal = None) => DenseOrdinals(T.decl)
  /\ Becomes(T)

\* traverseTopOrGroup / traverseUnion read the next member declaration
Traverse ==
  /\ phase = "run"
  /\ stack # << >>
  /\ \E m \in NextMembers :
       Reads(traverseMember([Translator EXCEPT !.decl = Append(@, m)], Len(decl) + 1, m))
  /\ UNCHANGED <<pos, phase, limits>>
  /\ UNCHANGED valueVars
  /\ UNCHANGED callVars

\* One iteration of the ordinal-pass loop.  The field's type is read and
\* compiled here; lgSize is its layout class.
OrdinalStep ==
  /\ phase = "run"
  /\ stack = << >>
  /\ pos <= Len(membersByOrdinal)
  /\ \E lgSize \in limits.types, oobMatch \in BOOLEAN :
       Continues(ordinalStep(Translator, pos, lgSize, oobMatch), "run")
  /\ pos' = pos + 1
  /\ UNCHANGED limits
  /\ UNCHANGED valueVars
  /\ UNCHANGED callVars

\* The rest of translate(): the finishGroup calls, then the sizes
Sized(T) == IF T.failed THEN T ELSE fillSizes(T)

Finish ==
  /\ phase = "run"
  /\ stack = << >>
  /\ pos > Len(membersByOrdinal)
  /\ \E oobMatch \in BOOLEAN :
       Continues(Sized(finishGroups(Translator, oobMatch)), "done")
  /\ UNCHANGED <<pos, limits>>
  /\ UNCHANGED valueVars
  /\ UNCHANGED callVars

Next == Traverse \/ OrdinalStep \/ Finish

Spec == Init /\ [][Next]_vars

SpecNested == InitNested /\ [][Next]_vars

SpecOrdinals == InitOrdinals /\ [][Next]_vars

SpecSparse == InitSparse /\ [][Next]_vars

SpecWords == InitWords /\ [][Next]_vars

\* A declaration whose values are compiled: no struct members are read
ValueLimits == [WideLimits EXCEPT !.maxMembers = 0]

InitValues == InitWithin(ValueLimits)

\* The values become those of V, a failed assertion ending the call
Compiles(V, then, otherwise) ==
  /\ targets' = V.targets
  /\ unfinishedValues' = V.unfinishedValues
  /\ valuePhase' = IF V.failed THEN otherwise ELSE then

\* The wipNode and the group nodes
getBootstrapNode == [node |-> members[0].node, groups |-> groups]

\* compileConst, the ordinal pass or compileAnnotationApplications compile
\* a value of a compiled type into a new Value of the node
CompileBootstrapValue ==
  /\ valuePhase = "bootstrap"
  /\ Len(targets) < MaxValues
  /\ \E type \in PrimitiveTypes \cup CompositeTypes :
       \E source \in Sources(type) :
         Compiles(compileBootstrapValue(initValue(Values), source, type, Len(targets) + 1),
                  "bootstrap", "bootstrapFailed")
  /\ UNCHANGED <<finishIndex, compiled, returned>>
  /\ UNCHANGED structVars
  /\ UNCHANGED callVars

\* finish(): one iteration of the loop
FinishValue ==
  /\ valuePhase \in {"bootstrap", "finish"}
  /\ finishIndex < Len(unfinishedValues)
  /\ Compiles(finishValue(Values, finishIndex), "finish", "finishFailed")
  /\ compiled' = Append(compiled, finishIndex + 1)
  /\ finishIndex' = finishIndex + 1
  /\ UNCHANGED returned
  /\ UNCHANGED structVars
  /\ UNCHANGED callVars

\* finish(): the loop ends and the node set is returned
FinishReturn ==
  /\ valuePhase \in {"bootstrap", "finish"}
  /\ finishIndex >= Len(unfinishedValues)
  /\ valuePhase' = "returned"
  /\ returned' = getBootstrapNode
  /\ UNCHANGED <<targets, unfinishedValues, finishIndex, compiled>>
  /\ UNCHANGED structVars
  /\ UNCHANGED callVars

NextValues == CompileBootstrapValue \/ FinishValue \/ FinishReturn

SpecValues == InitValues /\ [][NextValues]_vars

\* A function called on its own returns r
Returns(r) ==
  /\ ~result.returned
  /\ result' = [returned |-> TRUE, value |-> r]
  /\ UNCHANGED <<call, allocated>>
  /\ UNCHANGED structVars
  /\ UNCHANGED valueVars

InitTypes ==
  /\ Starts(ValueLimits)
  /\ \E source \in TypeExpressions(MaxTypeDepth) :
       call = [op |-> "compileType", source |-> source]
  /\ result = NotReturned
  /\ allocated = {}

\* compileType on a new Type builder, as compileConst and the ordinal pass call it
CompileType ==
  /\ call.op = "compileType"
  /\ Returns(compileType(call.source, NewType))

NextTypes == CompileType

SpecTypes == InitTypes /\ [][NextTypes]_vars

InitNegativeInt ==
  /\ Starts(ValueLimits)
  /\ \E nValue \in Magnitudes :
       call = [op |-> "compileValueInner", which |-> "NEGATIVE_INT", nValue |-> nValue]
  /\ result = NotReturned
  /\ allocated = {}

\* compileValueInner on a negative integer literal
CompileNegativeInt ==
  /\ call.op = "compileValueInner"
  /\ call.which = "NEGATIVE_INT"
  /\ Returns(compileNegativeInt(call, call.nValue))

NextNegativeInt == CompileNegativeInt

SpecNegativeInt == InitNegativeInt /\ [][NextNegativeInt]_vars

InitPointers == InitWithin(PointerLimits)

SpecPointers == InitPointers /\ [][Next]_vars

\* A Top used on its own, as the unions and fields of a struct use it: the
\* regions it handed out are kept in `allocated`, the last call in `call`
\* and what it returned in `result`.  It grows to at most MaxWords words and
\* hands out at most MaxRegions regions.
MaxWords == 2
MaxRegions == 5

\* lgSize of the data a field or a discriminant asks for
DataSizes == LgSizes \ {LgVoid, LgPointer}

Region(lgSize, offset) == [lgSize |-> lgSize, offset |-> offset]

InitTop ==
  /\ Starts(ValueLimits)
  /\ call = [op |-> "Top", fn |-> "none", lgSize |-> 0, offset |-> 0, factor |-> 0]
  /\ result = NotReturned
  /\ allocated = {}

\* Top::addData has returned r
Adds(r, lgSize) ==
  /\ r.L.dataWordCount <= MaxWords
  /\ layout' = r.L
  /\ allocated' = allocated \cup {Region(lgSize, r.res)}
  /\ call' = [op |-> "Top", fn |-> "addData", lgSize |-> lgSize, offset |-> 0, factor |-> 0]
  /\ result' = [returned |-> TRUE, value |-> r.res]

TopAddData ==
  /\ call.op = "Top"
  /\ Cardinality(allocated) < MaxRegions
  /\ \E lgSize \in DataSizes : Adds(topAddData(layout, lgSize), lgSize)
  /\ UNCHANGED translatorVars
  /\ UNCHANGED valueVars

\* Top::tryExpandData has returned r: when true, the caller's region is the
\* expanded one from then on (Union::DataLocation::tryExpandTo)
Expands(r, region, factor) ==
  /\ layout' = r.L
  /\ allocated' = IF r.ok
                    THEN (allocated \ {region})
                         \cup {Region(region.lgSize + factor, Shr(region.offset, factor))}
                    ELSE allocated
  /\ call' = [op |-> "Top", fn |-> "tryExpandData", lgSize |-> region.lgSize,
              offset |-> region.offset, factor |-> factor]
  /\ result' = [returned |-> TRUE, value |-> r.ok]

\* A union asks to expand one of its data locations, up to lgSize 7 (the
\* newSize of tryAllocateByExpanding on a location of one word)
TopTryExpandData ==
  /\ call.op = "Top"
  /\ \E region \in allocated, oobMatch \in BOOLEAN :
       \E factor \in 1..(NumHoles + 1 - region.lgSize) :
         Expands(topTryExpandData(layout, region.lgSize, region.offset, factor, oobMatch),
                 region, factor)
  /\ UNCHANGED translatorVars
  /\ UNCHANGED valueVars

NextTop == TopAddData \/ TopTryExpandData

SpecTop == InitTop /\ [][NextTop]_vars

\* -------------------------------------------------------------------------
\* What the claims speak about

\* The enclosing declarations of member k, the struct (0) included
RECURSIVE Enclosing(_)
Enclosing(k) == IF k = 0 THEN {} ELSE {decl[k].parent} \cup Enclosing(decl[k].parent)

\* Member k lies in the declaration s (or is s)
Within(k, s) == k = s \/ s \in Enclosing(k)

\* The unions that were traversed (a union directly in a union is ignored)
IsUnion(k) ==
  /\ decl[k].kind = "union"
  /\ decl[k].parent = 0 \/ decl[decl[k].parent].kind # "union"

\* The variants of union u: its member fields and groups
Variants(u) == {v \in 1..Len(decl) : decl[v].parent = u /\ decl[v].kind # "union"}

\* a and b lie in distinct variants of one union
Exclusive(a, b) ==
  \E u \in 1..Len(decl) :
    /\ IsUnion(u)
    /\ \E v, w \in Variants(u) : v # w /\ Within(a, v) /\ Within(b, w)

\* The StructLayout::Union made for union declaration u
UnionOf(u) == Cardinality({j \in 1..u : IsUnion(j)})

\* The fields that have been given a data offset
DataFields ==
  {k \in 1..Len(decl) :
     decl[k].kind = "field" /\ decl[k].type >= 0 /\ members[k].schema.which = "regular"}

\* The unions whose discriminant has been allocated
Discriminated ==
  {u \in 1..Len(decl) : IsUnion(u) /\ layout.unions[UnionOf(u)].discriminantOffset # None}

\* Bit regions [lo, hi)
FieldBits(k) ==
  [lo |-> members[k].schema.offset * 2 ^ decl[k].type,
   hi |-> (members[k].schema.offset + 1) * 2 ^ decl[k].type]

DiscriminantBits(u) ==
  [lo |-> layout.unions[UnionOf(u)].discriminantOffset * 16,
   hi |-> (layout.unions[UnionOf(u)].discriminantOffset + 1) * 16]

Overlap(r, q) == r.lo < q.hi /\ q.lo < r.hi

\* The variant groups and the root scope
GroupScopes == {0} \cup {v \in 1..Len(decl) : decl[v].parent # 0 /\ IsUnion(decl[v].parent)
                                               /\ decl[v].kind # "union"}

\* C1: the data regions of two distinct data fields that belong to the same
\* group (the same union variant, or the root scope) never overlap.  Two
\* fields of a group that lie in distinct variants of a union nested in it
\* are not in the same group.
C1_DisjointWithinGroup ==
  phase # "failed" =>
    \A s \in GroupScopes : \A f, g \in DataFields :
      (f # g /\ Within(f, s) /\ Within(g, s) /\ ~Exclusive(f, g))
        => ~Overlap(FieldBits(f), FieldBits(g))

\* the narrow reading: fields with the very same layout scope
C1_Narrow ==
  phase # "failed" =>
    \A f, g \in DataFields :
      (f # g /\ members[f].fieldScope = members[g].fieldScope)
        => ~Overlap(FieldBits(f), FieldBits(g))

\* C2: a data field declared inside a union never overlaps (a) a data field
\* declared outside that union, unless the two lie in distinct variants of an
\* enclosing union, (b) that union's discriminant, (c) the discriminant of a
\* union that encloses it or is nested in it (and does not lie in another
\* variant than the field); and (d) two data fields share bits only if they
\* lie in distinct variants of one union.
C2_UnionOverlap ==
  phase # "failed" =>
    /\ \A f \in DataFields : \A u \in 1..Len(decl) :
         (IsUnion(u) /\ Within(f, u)) =>
           /\ \A g \in DataFields :
                (~Within(g, u) /\ ~Exclusive(f, g)) => ~Overlap(FieldBits(f), FieldBits(g))
           /\ u \in Discriminated => ~Overlap(FieldBits(f), DiscriminantBits(u))
           /\ \A w \in Discriminated :
                ((Within(u, w) \/ Within(w, u)) /\ ~Exclusive(f, w))
                  => ~Overlap(FieldBits(f), DiscriminantBits(w))
    /\ \A f, g \in DataFields :
         (f # g /\ Overlap(FieldBits(f), FieldBits(g))) => Exclusive(f, g)

\* The exclusive end bits of the regions of the data fields and discriminants
UsedEnds ==
  {FieldBits(k).hi : k \in DataFields} \cup {DiscriminantBits(u).hi : u \in Discriminated}

\* The exclusive end bit of the highest region in use (0 when there is none)
HighestUsedBit == IF UsedEnds = {} THEN 0 ELSE CHOOSE h \in UsedEnds : \A e \in UsedEnds : e <= h

CeilDiv(a, b) == (a + b - 1) \div b

\* C3: once all members are placed, the emitted data word count is
\* ceil(H / 64), H being the end bit of the highest region in use.
C3_TightPacking ==
  phase = "done" => members[0].node.dataSectionWordSize = CeilDiv(HighestUsedBit, 64)

\* C3 witness: a translated struct of two data words whose second word holds
\* a field and whose first word keeps a hole.
C3_Witness ==
  /\ phase = "done"
  /\ members[0].node.dataSectionWordSize = 2
  /\ HighestUsedBit > 64
  /\ \E i \in 1..NumHoles : layout.holes[i] # 0

\* -------------------------------------------------------------------------
\* translate() as a function of a complete declaration d (types included),
\* for the claims that compare the translations of two declarations.  An
\* out-of-bounds comparison, should one be made, is taken not to match.

RECURSIVE traverseAll(_, _, _)
traverseAll(T, d, k) ==
  IF k > Len(d) THEN T
  ELSE traverseAll(traverseMember([T EXCEPT !.decl = Append(@, d[k])], k, d[k]), d, k + 1)

RECURSIVE ordinalAll(_, _)
ordinalAll(T, p) ==
  IF p > Len(T.membersByOrdinal) \/ T.failed THEN T
  ELSE LET m == T.membersByOrdinal[p].member IN
       ordinalAll(ordinalStep(T, p, IF m = 0 THEN Unread ELSE T.decl[m].type, FALSE), p + 1)

translate(d) ==
  LET rootSize == Cardinality({k \in 1..Len(d) : d[k].parent = 0})
      T == ordinalAll(traverseAll(NewTranslator(rootSize), d, 1), 1)
      F == IF T.failed THEN T ELSE finishGroups(T, FALSE)
  IN IF F.failed THEN F ELSE fillSizes(F)

\* The state machine computes translate(decl)
TranslateAgrees == phase = "done" => translate(decl) = Translator

\* -------------------------------------------------------------------------
\* Declarations related to the one translated

\* The ordinals of declaration d, and its member carrying the greatest one
OrdinalsOf(d) == {d[i].ord : i \in 1..Len(d)} \ {None}

HighestMember(d) ==
  CHOOSE k \in 1..Len(d) : d[k].ord # None /\ \A o \in OrdinalsOf(d) : o <= d[k].ord

\* d without its member f (a field): the declaration f was added to
RemoveMember(d, f) ==
  LET shift(i) == IF i > f THEN i - 1 ELSE i IN
  [i \in 1..(Len(d) - 1) |->
     LET j == IF i >= f THEN i + 1 ELSE i IN
     [d[j] EXCEPT !.parent = shift(@),
                  !.size = IF j = d[f].parent THEN @ - 1 ELSE @]]

\* No diagnostic was reported for the declaration
NoErrors == errors = << >>

\* The translated declaration is some S plus the field f of greatest ordinal,
\* added to the root scope, to a group, or to a union of two or more variants
AddedField(f) ==
  /\ phase = "done"
  /\ OrdinalsOf(decl) # {}
  /\ f = HighestMember(decl)
  /\ decl[f].kind = "field"
  /\ LET p == decl[f].parent IN
       \/ p = 0
       \/ decl[p].kind = "group"
       \/ IsUnion(p) /\ Cardinality(Variants(p)) >= 3

\* The translation of S = decl minus f agrees with the one of decl on the
\* offset and the discriminant value of every member of S and on the
\* discriminant offset of every union
SameAsWithout(f) ==
  LET S == translate(RemoveMember(decl, f))
      shift(i) == IF i > f THEN i - 1 ELSE i
  IN S.failed \/
     /\ \A k \in (1..Len(decl)) \ {f} :
          members[k].exists =>
            /\ S.members[shift(k)].schema.offset = members[k].schema.offset
            /\ S.members[shift(k)].schema.discriminantValue
                 = members[k].schema.discriminantValue
     /\ \A u \in 1..Len(layout.unions) :
          S.layout.unions[u].discriminantOffset = layout.unions[u].discriminantOffset

\* C4: adding a field whose ordinal is greater than every ordinal of S (in
\* the root scope, in an existing group, or as a new variant of a union that
\* has two variants) leaves the offset and the discriminant value of every
\* field of S and the discriminant offset of every union of S unchanged.
C4_AppendOnly ==
  \A f \in 1..Len(decl) : AddedField(f) => SameAsWithout(f)

\* C4 (amended): the same, for an S and an S' that are both translated
\* without a diagnostic.
C4_AppendOnlyValid ==
  \A f \in 1..Len(decl) :
    (AddedField(f) /\ NoErrors /\ translate(RemoveMember(decl, f)).errors = << >>)
      => SameAsWithout(f)

\* C4 witness: a data field was added as the third variant of a union whose
\* discriminant is allocated, S and S' translated without a diagnostic, and
\* the new field shares bits with an earlier variant.
C4_Witness ==
  \E f \in 1..Len(decl) :
    /\ AddedField(f) /\ NoErrors
    /\ decl[f].parent # 0
    /\ IsUnion(decl[f].parent)
    /\ decl[f].parent \in Discriminated
    /\ LET S == translate(RemoveMember(decl, f)) IN ~S.failed /\ S.errors = << >>
    /\ f \in DataFields
    /\ \E g \in DataFields \ {f} : Overlap(FieldBits(f), FieldBits(g))

\* The enclosing declarations of member k of declaration d
RECURSIVE EnclosingIn(_, _)
EnclosingIn(d, k) == IF k = 0 THEN {} ELSE {d[k].parent} \cup EnclosingIn(d, d[k].parent)

\* The number of declarations member k of d stands for: itself and all
\* those nested in it (they follow it immediately)
Extent(d, k) == 1 + Cardinality({j \in 1..Len(d) : k \in EnclosingIn(d, j)})

\* Member a of d has a next sibling in its scope
HasNextSibling(d, a) ==
  /\ a + Extent(d, a) <= Len(d)
  /\ d[a + Extent(d, a)].parent = d[a].parent

\* Where member k of d goes when member a and its next sibling change places
Swapped(d, a, k) ==
  LET na == Extent(d, a)
      b == a + na
      nb == Extent(d, b)
  IN IF k >= a /\ k < b THEN k + nb
     ELSE IF k >= b /\ k < b + nb THEN k - na
     ELSE k

\* d with member a and its next sibling in the other code order; names,
\* types, ordinals and nesting are kept
SwapSiblings(d, a) ==
  [i \in 1..Len(d) |->
     LET k == CHOOSE j \in 1..Len(d) : Swapped(d, a, j) = i IN
     [d[k] EXCEPT !.parent = Swapped(d, a, @)]]

\* The translation of decl and the one P of the declaration with a and its
\* next sibling swapped emit the same offsets (data offsets and pointer
\* indices), discriminant offsets and section sizes
SameLayout(a, P) ==
  /\ \A k \in 1..Len(decl) :
       (decl[k].kind = "field" /\ members[k].exists) =>
         P.members[Swapped(decl, a, k)].schema.offset = members[k].schema.offset
  /\ \A k \in 0..Len(decl) :
       members[k].hasNode =>
         LET n == members[k].node
             q == P.members[Swapped(decl, a, k)].node
         IN /\ q.discriminantOffset = n.discriminantOffset
            /\ q.dataSectionWordSize = n.dataSectionWordSize
            /\ q.pointerSectionSize = n.pointerSectionSize

Owner(u) == IF decl[u].name = << >> THEN decl[u].parent ELSE u

\* The node owning union u carries the union's allocated discriminant offset
\* and counts the union's variants
OwnsUnion(u) ==
  LET node == members[Owner(u)].node
      union == layout.unions[UnionOf(u)]
  IN /\ union.discriminantOffset # None
     /\ node.discriminantOffset = union.discriminantOffset
     /\ node.discriminantCount = Cardinality(Variants(u))

GroupNodes == {k \in 1..Len(decl) : members[k].exists /\ members[k].hasNode}

\* The index of member k's field entry in the emitted field list of its
\* parent node (None when the list has no entry for k)
FieldIndex(k) ==
  LET fields == members[members[k].parent].node.fields
      at == {i \in 1..Len(fields) : fields[i] = k}
  IN IF at = {} THEN None ELSE (CHOOSE i \in at : TRUE) - 1

\* The id of group node k is generated from its parent's id and the index of
\* its own field entry
IdFromIndex(k) ==
  /\ FieldIndex(k) # None
  /\ members[k].node.id
       = generateGroupId(members[members[k].parent].node.id, FieldIndex(k))

NamedAfterParent(k) ==
  LET node == members[k].node
      parent == members[members[k].parent].node
  IN /\ node.isGroup
     /\ node.displayName = parent.displayName \o <<".">> \o decl[k].name
     /\ node.displayNamePrefixLength = Len(node.displayName) - Len(decl[k].name)

\* C8: every group node emitted for a named group or named union is marked
\* is_group, has display name = parent display name + '.' + member name with
\* prefix length = display-name length minus member-name length, and, once
\* translation has completed, has a scope id equal to the id of its parent
\* node, also when the parent is itself a group node.
C8_GroupNodes ==
  /\ \A k \in GroupNodes : NamedAfterParent(k)
  /\ phase = "done" =>
       \A k \in GroupNodes : members[k].node.scopeId = members[members[k].parent].node.id

\* The parts of C8 that do not concern the scope id
C8_Names == \A k \in GroupNodes : NamedAfterParent(k)

\* The scope id of the group nodes whose parent is the root
C8_ScopeOfRootGroups ==
  phase = "done" =>
    \A k \in GroupNodes :
      members[k].parent = 0 => members[k].node.scopeId = members[0].node.id

\* The smallest k in 0..6 such that every bit in use in the data section lies
\* in [0, 2^k) (None when some bit lies beyond the first word)
SmallestCover ==
  LET ks == {k \in 0..6 : HighestUsedBit <= 2 ^ k} IN
  IF ks = {} THEN None ELSE CHOOSE k \in ks : \A j \in ks : k <= j

\* C9: the emitted preferred list encoding is EMPTY for no pointer and no
\* data word; for no pointer and one data word it is given by the smallest k
\* with every occupied bit in [0, 2^k): BIT for 0, BYTE for 1..3, TWO_BYTES
\* for 4, FOUR_BYTES for 5, EIGHT_BYTES for 6; POINTER for one pointer and no
\* data word; INLINE_COMPOSITE otherwise.
C9_PreferredListEncoding ==
  phase = "done" =>
    LET node == members[0].node
        p == node.pointerSectionSize
        d == node.dataSectionWordSize
        k == SmallestCover
    IN node.preferredListEncoding =
         IF p = 0 /\ d = 0 THEN "EMPTY"
         ELSE IF p = 0 /\ d = 1
           THEN (IF k = 0 THEN "BIT"
                 ELSE IF k \in 1..3 THEN "BYTE"
                 ELSE IF k = 4 THEN "TWO_BYTES"
                 ELSE IF k = 5 THEN "FOUR_BYTES"
                 ELSE IF k = 6 THEN "EIGHT_BYTES"
                 ELSE "none")
         ELSE IF p = 1 /\ d = 0 THEN "POINTER"
         ELSE "INLINE_COMPOSITE"

\* C9 witness: a translated struct of one data word and no pointer whose
\* union discriminant and fields end at bit 24: k = 5, FOUR_BYTES.
C9_Witness ==
  /\ phase = "done"
  /\ members[0].node.pointerSectionSize = 0
  /\ members[0].node.dataSectionWordSize = 1
  /\ HighestUsedBit = 24
  /\ Discriminated # {}
  /\ members[0].node.preferredListEncoding = "FOUR_BYTES"

\* The members of the node of p (the root, a named group or a named union)
MembersOf(p) == {k \in 1..Len(decl) : members[k].exists /\ members[k].parent = p}

\* C10: within every emitted struct or group node with n members, the
\* code-order indices of its members are 0..n-1 in declaration order (the
\* members of an unnamed union continue the enclosing scope's counter, those
\* of a named union are numbered from 0 in the union's own node), and the
\* ordinal emitted on each field is the ordinal declared for it.
C10_CodeOrder ==
  phase = "done" =>
    /\ \A p \in {0} \cup GroupNodes : \A k \in MembersOf(p) :
         /\ members[k].hasSchema
         /\ members[k].schema.codeOrder = Cardinality({j \in MembersOf(p) : j < k})
    /\ \A k \in 1..Len(decl) :
         (decl[k].kind = "field" /\ members[k].exists)
           => members[k].schema.ordinal = decl[k].ord

\* C10 witness: a translated struct in which a member precedes an unnamed
\* union whose second variant has code order 2 and an ordinal other than 2.
C10_Witness ==
  /\ phase = "done"
  /\ \E u \in 1..Len(decl) :
       /\ IsUnion(u) /\ decl[u].name = << >>
       /\ \E v \in Variants(u) :
            /\ decl[v].kind = "field"
            /\ members[v].schema.codeOrder = 2
            /\ members[v].schema.ordinal # 2
            /\ \E a \in MembersOf(members[v].parent) : a < u


\* The lowest ordinal carried by member v or by a member declared in it
\* (None when there is none)
OrdinalsIn(v) ==
  {decl[k].ord : k \in {j \in 1..Len(decl) : Within(j, v)}} \ {None}

LowestOrdinal(v) ==
  IF OrdinalsIn(v) = {} THEN None
  ELSE CHOOSE o \in OrdinalsIn(v) : \A q \in OrdinalsIn(v) : o <= q

\* The variants of union u that were given a field schema
SchemaVariants(u) == {v \in Variants(u) : members[v].exists /\ members[v].hasSchema}

DiscriminantValue(v) == members[v].schema.discriminantValue

\* C11: within a union, the discriminant values of the variants are
\* 0, 1, 2, ... in code (declaration) order, whatever the ordinals are: of two
\* variants the one declared first has the lower value.
C11_DiscriminantCodeOrder ==
  phase = "done" =>
    \A u \in 1..Len(decl) : IsUnion(u) =>
      \A v, w \in Variants(u) :
        v < w => DiscriminantValue(v) < DiscriminantValue(w)

\* C11 (amended): within a union of a struct translated without a diagnostic,
\* the discriminant values of the n variants are 0 .. n-1 in the order of the
\* variants' ordinals, a group counting with the lowest ordinal found in it.
C11_DiscriminantOrdinalOrder ==
  (phase = "done" /\ NoErrors) =>
    \A u \in 1..Len(decl) : IsUnion(u) =>
      /\ {DiscriminantValue(v) : v \in Variants(u)} = 0..(Cardinality(Variants(u)) - 1)
      /\ \A v, w \in Variants(u) :
           LowestOrdinal(v) < LowestOrdinal(w) => DiscriminantValue(v) < DiscriminantValue(w)

\* C11 witness: a struct translated without a diagnostic whose union has a
\* variant declared first that carries the higher ordinal and got the higher
\* discriminant value
C11_Witness ==
  /\ phase = "done"
  /\ NoErrors
  /\ \E u \in 1..Len(decl) :
       /\ IsUnion(u)
       /\ \E v, w \in Variants(u) :
            /\ v < w
            /\ LowestOrdinal(w) < LowestOrdinal(v)
            /\ DiscriminantValue(w) < DiscriminantValue(v)


\* The root fields of the declaration as a set of <<ordinal, layout class>>
RootFields ==
  {<<decl[k].ord, decl[k].type>> : k \in {j \in 1..Len(decl) : decl[j].kind = "field"}}

\* The bit offset of the field that carries ordinal o
BitOffsetOf(o) ==
  LET k == CHOOSE j \in 1..Len(decl) : decl[j].ord = o IN FieldBits(k).lo

\* The struct { a @0 :UInt8; b @1 :UInt64; c @2 :UInt16; d @3 :UInt32; }
FourFields ==
  /\ Len(decl) = 4
  /\ \A k \in 1..4 : decl[k].kind = "field" /\ decl[k].parent = 0 /\ decl[k].ord = k - 1
  /\ RootFields = {<<0, 3>>, <<1, 6>>, <<2, 4>>, <<3, 5>>}

\* C12: for the struct with fields a: u8, b: u64, c: u16, d: u32 carrying
\* ordinals 0, 1, 2, 3 in that order, the bit offsets are a = 0, b = 64,
\* c = 16, d = 32, the data word count is 2, the pointer count 0 and the
\* preferred list encoding INLINE_COMPOSITE.
C12_FourFields ==
  (phase = "done" /\ FourFields) =>
    /\ BitOffsetOf(0) = 0
    /\ BitOffsetOf(1) = 64
    /\ BitOffsetOf(2) = 16
    /\ BitOffsetOf(3) = 32
    /\ members[0].node.dataSectionWordSize = 2
    /\ members[0].node.pointerSectionSize = 0
    /\ members[0].node.preferredListEncoding = "INLINE_COMPOSITE"

\* C12 witness: that struct has been translated
C12_Witness == phase = "done" /\ FourFields /\ NoErrors


\* The struct whose only member is a union (named or not) with the variants
\* x @0 :UInt16, y @1 :UInt32, z @2 :Text, declared in that order
UnionXYZ ==
  /\ Len(decl) = 4
  /\ decl[1].kind = "union" /\ decl[1].parent = 0 /\ decl[1].ord = None
  /\ \A k \in 2..4 : decl[k].kind = "field" /\ decl[k].parent = 1 /\ decl[k].ord = k - 2
  /\ decl[2].type = 4 /\ decl[3].type = 5 /\ decl[4].type = LgPointer

\* C13: in that struct a 16-bit discriminant is allocated, the bit regions of
\* x and y overlap (both lie in one shared data location of the union), and
\* z gets pointer index 0.
C13_UnionXYZ ==
  (phase = "done" /\ UnionXYZ) =>
    /\ 1 \in Discriminated
    /\ Overlap(FieldBits(2), FieldBits(3))
    /\ Len(layout.unions[1].dataLocations) = 1
    /\ members[4].schema.offset = 0

\* C13 (amended): in that struct a 16-bit discriminant is allocated, at bits
\* [16, 32), right after x at bits [0, 16); this keeps the data location of x
\* from growing, so y gets a second data location at bits [32, 64) and the
\* regions of x and y do not overlap; z gets pointer index 0.
C13_UnionXYZApart ==
  (phase = "done" /\ UnionXYZ) =>
    /\ 1 \in Discriminated
    /\ DiscriminantBits(1) = [lo |-> 16, hi |-> 32]
    /\ FieldBits(2) = [lo |-> 0, hi |-> 16]
    /\ FieldBits(3) = [lo |-> 32, hi |-> 64]
    /\ ~Overlap(FieldBits(2), FieldBits(3))
    /\ layout.unions[1].dataLocations
         = <<[lgSize |-> 4, offset |-> 0], [lgSize |-> 5, offset |-> 1]>>
    /\ members[4].schema.offset = 0

\* C13 witness: that struct has been translated, without a diagnostic
C13_Witness == phase = "done" /\ UnionXYZ /\ NoErrors


\* The struct made of the root field w @0 :UInt8 and the unnamed union u,
\* which has no ordinal and only fields as members (their ordinals are 1 and
\* up, in whatever order they are declared)
FieldBesideUnion(w, u) ==
  /\ decl[w].kind = "field" /\ decl[w].parent = 0 /\ decl[w].ord = 0 /\ decl[w].type = 3
  /\ decl[u].kind = "union" /\ decl[u].parent = 0 /\ decl[u].name = << >>
  /\ decl[u].ord = None
  /\ \A k \in 1..Len(decl) : k \notin {w, u} => decl[k].kind = "field" /\ decl[k].parent = u

\* The union member placed first: the one with the lowest ordinal
FirstPlaced(u) ==
  {k \in Variants(u) : \A j \in Variants(u) : decl[k].ord <= decl[j].ord}

\* The free holes of the struct's data section that lie in word 0, by size
HolesInWordZero ==
  {lg \in 0..(NumHoles - 1) :
     layout.holes[lg + 1] # 0 /\ layout.holes[lg + 1] * 2 ^ lg < 64}

\* The data locations of a union are taken from word 0 while it has room: a
\* location beyond word 0 is one that no hole left in word 0 could hold
WordZeroFirst(u) ==
  \A i \in 1..Len(layout.unions[UnionOf(u)].dataLocations) :
    LET location == layout.unions[UnionOf(u)].dataLocations[i] IN
    location.offset * 2 ^ location.lgSize >= 64 =>
      \A lg \in HolesInWordZero : lg < location.lgSize

\* C14: for a struct with a root field w: u8 at ordinal 0 and an unnamed
\* union whose members have ordinals 1 and up, whatever the types of the union
\* members, w occupies bits [0,8), the union's discriminant is placed at bits
\* [16,32), and the union's data locations are taken first from the free
\* space of word 0 and only then from word 1.
C14_FieldBesideUnion ==
  phase = "done" =>
    \A w, u \in 1..Len(decl) : FieldBesideUnion(w, u) =>
      /\ FieldBits(w) = [lo |-> 0, hi |-> 8]
      /\ DiscriminantBits(u) = [lo |-> 16, hi |-> 32]
      /\ WordZeroFirst(u)

\* C14 (amended): the same, except that the discriminant is at bits [16,32)
\* unless the union member with the lowest ordinal is a 16-bit field: that
\* member, placed before the discriminant is allocated, then takes bits
\* [16,32) itself and the discriminant is at bits [32,48).
C14_FieldBesideUnionTyped ==
  phase = "done" =>
    \A w, u \in 1..Len(decl) : FieldBesideUnion(w, u) =>
      /\ FieldBits(w) = [lo |-> 0, hi |-> 8]
      /\ IF \E f \in FirstPlaced(u) : decl[f].type = 4
           THEN /\ \A f \in FirstPlaced(u) : FieldBits(f) = [lo |-> 16, hi |-> 32]
                /\ DiscriminantBits(u) = [lo |-> 32, hi |-> 48]
           ELSE DiscriminantBits(u) = [lo |-> 16, hi |-> 32]
      /\ WordZeroFirst(u)

\* C14 witness: such a struct translated without a diagnostic, in which the
\* union member placed first is a 16-bit field and a later member is put in
\* word 1
C14_Witness ==
  /\ phase = "done"
  /\ NoErrors
  /\ \E w, u \in 1..Len(decl) :
       /\ FieldBesideUnion(w, u)
       /\ \E f \in FirstPlaced(u) : decl[f].type = 4
       /\ \E i \in 1..Len(layout.unions[UnionOf(u)].dataLocations) :
            layout.unions[UnionOf(u)].dataLocations[i].lgSize = 6


\* The ordinal pass is about to visit the entry of union u, which carries an
\* explicit ordinal
ReachesUnion(u) ==
  /\ phase = "run"
  /\ stack = << >>
  /\ pos <= Len(membersByOrdinal)
  /\ IsUnion(u)
  /\ decl[u].ord # None
  /\ membersByOrdinal[pos].ord = decl[u].ord

\* The variants of union u that hold a member with an ordinal lower than u's
LowerVariants(u) ==
  {v \in Variants(u) :
     \E k \in 1..Len(decl) : Within(k, v) /\ decl[k].ord # None /\ decl[k].ord < decl[u].ord}

\* The step reports 'only one field retroactively unionized'
Unionized ==
  /\ Len(errors') > Len(errors)
  /\ errors'[Len(errors')].msg = "only one field retroactively unionized"

\* C15: when the ordinal pass reaches a union that carries an explicit
\* ordinal, the 'only one field retroactively unionized' error is reported
\* exactly when members of two or more distinct variants of the union have
\* ordinals lower than the union's (the discriminant exists already); a union
\* with at most one such variant gets no error and has its discriminant
\* allocated at that step.
C15_Retroactive ==
  [][\A u \in 1..Len(decl) : ReachesUnion(u) =>
       /\ Unionized <=> (Cardinality(LowerVariants(u)) >= 2)
       /\ Cardinality(LowerVariants(u)) < 2 =>
            /\ layout.unions[UnionOf(u)].discriminantOffset = None
            /\ layout'.unions[UnionOf(u)].discriminantOffset # None]_vars


\* The ordinal pass is about to visit member m, which carries an ordinal,
\* and to give that ordinal to the duplicate-ordinal detector
ChecksOrdinal(m) ==
  /\ phase = "run"
  /\ stack = << >>
  /\ pos <= Len(membersByOrdinal)
  /\ membersByOrdinal[pos].member = m
  /\ decl[m].ord # None

\* The members visited before that carry the ordinal value of the entry at pos
SeenBefore ==
  {membersByOrdinal[i].member :
     i \in {j \in 1..(pos - 1) : membersByOrdinal[j].ord = membersByOrdinal[pos].ord}}

\* C16: in the ascending sequence of ordinals given to the duplicate-ordinal
\* detector, every occurrence that repeats an ordinal value already seen
\* produces two diagnostics, 'Duplicate ordinal number.' at the repeated
\* occurrence and 'originally used here' at the prior occurrence of that
\* same value, and the detector goes on validating (its expected ordinal
\* stays as it is).
C16_DuplicateOrdinals ==
  [][\A m \in 1..Len(decl) : (ChecksOrdinal(m) /\ SeenBefore # {}) =>
       /\ \E prior \in SeenBefore :
            errors' = errors \o <<Error("Duplicate ordinal number.", m),
                                  Error("originally used here", prior)>>
       /\ detector'.expectedOrdinal = detector.expectedOrdinal]_vars


\* The diagnostics of the duplicate-ordinal detector among those reported
DetectorMessages == {"Duplicate ordinal number.", "originally used here", "Skipped ordinal"}

IsDetectorError(e) == e.msg \in DetectorMessages
IsSkipped(e) == e.msg = "Skipped ordinal"

DetectorErrors == SelectSeq(errors, IsDetectorError)
SkippedErrors == SelectSeq(errors, IsSkipped)

\* The ordinal the detector expects when it is given entry i of the
\* ascending sequence (entries 1 .. i-1 given before)
ExpectedAt(i) == IF i = 1 THEN 0 ELSE membersByOrdinal[i - 1].ord + 1

\* The entries given so far that leave a gap
Gaps == {i \in 1..(pos - 1) : membersByOrdinal[i].ord > ExpectedAt(i)}

\* C17: the detector, fed the ordinals of the members in ascending order,
\* reports no diagnostic if and only if the ordinals are exactly 0, 1, ...,
\* n-1; each gap produces exactly one 'Skipped ordinal @N' naming the expected
\* ordinal N, after which the expected ordinal is the offending value plus one.
C17_DenseOrdinals ==
  stack = << >> =>
    /\ DetectorErrors = << >> <=> \A i \in 1..(pos - 1) : membersByOrdinal[i].ord = i - 1
    /\ Len(SkippedErrors) = Cardinality(Gaps)
    /\ {SkippedErrors[j] : j \in 1..Len(SkippedErrors)}
         = {ErrorN("Skipped ordinal", membersByOrdinal[i].member, ExpectedAt(i)) : i \in Gaps}
    /\ detector.expectedOrdinal = ExpectedAt(pos)

\* C17 witness: the translation is over, a gap after ordinal 0 was reported
\* and the ordinal given after the gap was the one expected then
C17_Witness ==
  /\ phase = "done"
  /\ Cardinality(Gaps) = 1
  /\ 1 \notin Gaps
  /\ \E i \in 2..(pos - 1) : (i - 1) \in Gaps /\ membersByOrdinal[i].ord = ExpectedAt(i)


\* The recoverable errors a complete struct declaration can exhibit
SmallUnion == \E u \in 1..Len(decl) : IsUnion(u) /\ decl[u].size < 2
UnionInUnion == \E u \in 1..Len(decl) : decl[u].kind = "union" /\ ~IsUnion(u)
EmptyGroup == \E g \in 1..Len(decl) : decl[g].kind = "group" /\ decl[g].size < 1
RepeatedOrdinal ==
  \E i, j \in 1..Len(membersByOrdinal) : i # j /\ membersByOrdinal[i].ord = membersByOrdinal[j].ord
SkippedOrdinal ==
  \E i \in 1..Len(membersByOrdinal) :
    membersByOrdinal[i].ord > (IF i = 1 THEN 0 ELSE membersByOrdinal[i - 1].ord + 1)
LateUnionOrdinal ==
  \E u \in 1..Len(decl) :
    IsUnion(u) /\ decl[u].ord # None /\ Cardinality(LowerVariants(u)) >= 2

Recoverable ==
  /\ stack = << >>
  /\ \/ SmallUnion \/ UnionInUnion \/ EmptyGroup
     \/ RepeatedOrdinal \/ SkippedOrdinal \/ LateUnionOrdinal

\* C18: for a struct declaration that exhibits a recoverable error (a union
\* with fewer than two members, a union directly in a union, a group with no
\* members, duplicate or skipped ordinals, a union ordinal violating the
\* retroactive rule), translation never reaches a fatal assertion: it records
\* diagnostics and completes with the sizes and the discriminants emitted.
C18_Recoverable ==
  Recoverable =>
    /\ phase # "failed"
    /\ phase = "done" =>
         /\ errors # << >>
         /\ members[0].node.dataSectionWordSize = layout.dataWordCount
         /\ members[0].node.pointerSectionSize = layout.pointerCount
         /\ \A k \in 0..Len(decl) :
              (members[k].exists /\ members[k].unionScope # None) =>
                /\ layout.unions[members[k].unionScope].discriminantOffset # None
                /\ members[k].node.discriminantOffset
                     = layout.unions[members[k].unionScope].discriminantOffset


\* The queue entries in the order they were added
QueueOrder == [i \in 1..Len(unfinishedValues) |-> i]

\* The call of finish() has ended, by returning or in a failed assertion
FinishEnded == valuePhase \in {"returned", "finishFailed"}

\* C19: once finish() has ended, it has called compileValue on every entry
\* of the unfinished-values queue exactly once, in the order the entries were
\* added, those added during the loop included.
C19_DrainsQueue == FinishEnded => compiled = QueueOrder

\* The bootstrap deferred at least one value and finish() has been called
FinishesDeferred ==
  /\ unfinishedValues # << >>
  /\ valuePhase \in {"finish", "returned", "finishFailed"}

\* C20: when the bootstrap deferred at least one composite value, finish()
\* does not end in a failed assertion, and once it has returned every
\* deferred value has been compiled into its target and the node set
\* returned is the wipNode and the group nodes of the bootstrap node set.
C20_FinishCompletes ==
  FinishesDeferred =>
    /\ valuePhase # "finishFailed"
    /\ valuePhase = "returned" =>
         /\ compiled = QueueOrder
         /\ \A i \in 1..Len(unfinishedValues) :
              ~targets[unfinishedValues[i].target].isNull
         /\ returned = getBootstrapNode


\* The step is a call of compileBootstrapValue, on the newest Value
BootstrapsValue == Len(targets') = Len(targets) + 1

\* The type the step's value was compiled for
BootstrappedType == targets'[Len(targets')].which

\* C21: a call of compileBootstrapValue on a list, struct, interface or
\* object type leaves the type's default default in the target and appends
\* exactly one record for that target to the unfinished-values queue; on
\* every other type it compiles the value into the target at once (the call
\* does not end in a failed assertion) and appends nothing to the queue.
C21_BootstrapValue ==
  [][BootstrapsValue =>
       IF BootstrappedType \in CompositeTypes
         THEN /\ targets'[Len(targets')] = Value(BootstrappedType, 0, "",
                                                 BootstrappedType \in PointerTypes)
              /\ Len(unfinishedValues') = Len(unfinishedValues) + 1
              /\ unfinishedValues'[Len(unfinishedValues')].target = Len(targets')
              /\ unfinishedValues'[Len(unfinishedValues')].type = BootstrappedType
              /\ SubSeq(unfinishedValues', 1, Len(unfinishedValues)) = unfinishedValues
              /\ valuePhase' = "bootstrap"
         ELSE /\ unfinishedValues' = unfinishedValues
              /\ valuePhase' = "bootstrap"
              /\ ~targets'[Len(targets')].isNull]_vars


\* compileType has returned from the call on the type expression `source`
CompiledType(source) ==
  /\ call.op = "compileType"
  /\ call.source = source
  /\ result.returned

ObjectExpression == TypeExpression("BUILTIN_OBJECT", << >>)

ListOfObject == TypeExpression("BUILTIN_LIST", <<ObjectExpression>>)

\* C22: compileType on List(T) with T compiling to Object reports an error,
\* leaves the target a list of Void and returns false; on List with no or
\* several parameters it reports an error and returns false; on a name the
\* resolver does not resolve it sets the target to Void and returns false.
C22_CompileType ==
  \A source \in TypeExpressions(MaxTypeDepth) :
    CompiledType(source) =>
      /\ source = ListOfObject =>
           /\ ~result.value.ok
           /\ result.value.target = Type("LIST", 0, <<Type("VOID", 0, << >>)>>)
           /\ result.value.errors = <<Error("'List(Object)' is not supported.", source)>>
      /\ (source.name = "BUILTIN_LIST" /\ Len(source.params) # 1) =>
           /\ ~result.value.ok
           /\ result.value.errors
                = <<Error("'List' requires exactly one parameter.", source)>>
      /\ source.name = "UNRESOLVED" =>
           /\ ~result.value.ok
           /\ result.value.target = Type("VOID", 0, << >>)

C22_Witness == CompiledType(ListOfObject)


\* compileValueInner has returned from the call on a negative integer literal
CompiledNegativeInt ==
  /\ call.op = "compileValueInner"
  /\ call.which = "NEGATIVE_INT"
  /\ result.returned

\* 2^63
TwoTo63 == [i \in 1..UintLimbs |-> IF i = UintLimbs THEN 2^(LimbBits - 1) ELSE 0]

\* n > 2^63, compared from the most significant limb down
ExceedsTwoTo63(n) ==
  \E i \in 1..UintLimbs :
    /\ n[i] > TwoTo63[i]
    /\ \A j \in (i + 1)..UintLimbs : n[j] = TwoTo63[j]

RECURSIVE ScopeIn(_, _)
ScopeIn(s, g) ==
  \/ s = g
  \/ s # TopScope /\ ScopeIn(layout.unions[layout.groups[s].parent].parent, g)

\* The holes group g records: usage i of its union's data locations, class c
GroupHoles ==
  {h \in [g : 1..Len(layout.groups), i : 1..Len(layout.unions), c : 0..(NumHoles - 1)] :
     /\ h.i <= Len(layout.groups[h.g].parentDataLocationUsage)
     /\ layout.groups[h.g].parentDataLocationUsage[h.i].isUsed
     /\ layout.groups[h.g].parentDataLocationUsage[h.i].holes[h.c + 1] # 0}

\* The bits of the hole, the location's offset added
HoleBits(h) ==
  LET location == layout.unions[layout.groups[h.g].parent].dataLocations[h.i]
      lo == location.offset * 2 ^ location.lgSize
            + layout.groups[h.g].parentDataLocationUsage[h.i].holes[h.c + 1] * 2 ^ h.c
  IN [lo |-> lo, hi |-> lo + 2 ^ h.c]

\* C24: a region allocated through a group, and whatever a successful
\* Group::tryExpandData has expanded it to, is treated as allocated: no hole
\* the group records lies inside the region of a data field or of a
\* discriminant placed in the group or in a scope nested in it.
C24_ExpandedRegion ==
  phase # "failed" =>
    \A h \in GroupHoles :
      /\ \A f \in DataFields :
           ScopeIn(members[f].fieldScope, h.g) => ~Overlap(FieldBits(f), HoleBits(h))
      /\ \A u \in Discriminated :
           ScopeIn(layout.unions[UnionOf(u)].parent, h.g)
             => ~Overlap(DiscriminantBits(u), HoleBits(h))


\* lgSize of one 64-bit word
LgWord == 6

\* C25: no HoleSet operation reaches past the size classes 0..5 (no entry
\* beyond the holes array is matched or written), and no data location's
\* lgSize and no usage's lgSizeUsed exceeds that of one 64-bit word.
C25_OneWord ==
  /\ ~layout.oob
  /\ \A u \in 1..Len(layout.unions) : \A i \in 1..Len(layout.unions[u].dataLocations) :
       layout.unions[u].dataLocations[i].lgSize <= LgWord
  /\ \A g \in 1..Len(layout.groups) :
       \A i \in 1..Len(layout.groups[g].parentDataLocationUsage) :
         layout.groups[g].parentDataLocationUsage[i].isUsed
           => layout.groups[g].parentDataLocationUsage[i].lgSizeUsed <= LgWord


\* The regions group g has in use: the usage i they lie in, their size class
\* and their offset in units of their size
UsedRegions(g) ==
  {r \in [i : 1..Len(layout.groups[g].parentDataLocationUsage), lg : 0..LgWord,
          local : 0..(2 ^ LgWord - 1)] :
     /\ layout.groups[g].parentDataLocationUsage[r.i].isUsed
     /\ r.lg <= layout.groups[g].parentDataLocationUsage[r.i].lgSizeUsed
     /\ r.local < 2 ^ (layout.groups[g].parentDataLocationUsage[r.i].lgSizeUsed - r.lg)}

\* The offset of the region in the struct, in units of its size
OffsetOf(g, r) ==
  layout.unions[layout.groups[g].parent].dataLocations[r.i].offset
    * 2 ^ (layout.unions[layout.groups[g].parent].dataLocations[r.i].lgSize - r.lg)
  + r.local

\* C26: Group::tryExpandData(oldLgSize, oldOffset, expansionFactor) on a
\* region the group has in use returns false and changes nothing of the
\* layout whenever oldLgSize + expansionFactor exceeds 6 or oldOffset is not
\* a multiple of 2^expansionFactor.
C26_GroupTryExpandData ==
  phase # "failed" =>
    \A g \in 1..Len(layout.groups) : \A r \in UsedRegions(g) :
      \A expansionFactor \in 1..LgWord, oobMatch \in BOOLEAN :
        (\/ r.lg + expansionFactor > LgWord
         \/ OffsetOf(g, r) % (2 ^ expansionFactor) # 0)
          => groupTryExpandData(layout, g, r.lg, OffsetOf(g, r), expansionFactor, oobMatch)
               = [L |-> layout, ok |-> FALSE]


\* The bits of a region of class lgSize at `offset`
RegionBits(lgSize, offset) == [lo |-> offset * 2 ^ lgSize, hi |-> (offset + 1) * 2 ^ lgSize]

\* The holes the Top records
TopHoles == {c \in 0..(NumHoles - 1) : layout.holes[c + 1] # 0}

\* The regions and holes that cover bit b
Covering(b) ==
  {<<"region", r>> : r \in {q \in allocated :
                              /\ RegionBits(q.lgSize, q.offset).lo <= b
                              /\ b < RegionBits(q.lgSize, q.offset).hi}}
  \cup {<<"hole", c>> : c \in {d \in TopHoles :
                                 /\ RegionBits(d, layout.holes[d + 1]).lo <= b
                                 /\ b < RegionBits(d, layout.holes[d + 1]).hi}}

\* C27: after any sequence of Top::addData and Top::tryExpandData calls,
\* every bit of the data section is covered exactly once, by a region handed
\* out (or grown by a successful expansion) or by a recorded hole, and no
\* region or hole reaches past the data section.
C27_TopCovered ==
  call.op = "Top" =>
    /\ \A b \in 0..(64 * layout.dataWordCount - 1) : Cardinality(Covering(b)) = 1
    /\ \A q \in allocated : RegionBits(q.lgSize, q.offset).hi <= 64 * layout.dataWordCount
    /\ \A c \in TopHoles :
         RegionBits(c, layout.holes[c + 1]).hi <= 64 * layout.dataWordCount


\* Every recorded hole of the set is at an odd offset
OddHoles(holes) == \A i \in 1..NumHoles : holes[i] # 0 => holes[i] % 2 = 1

\* C28: in every HoleSet, that of the Top and that of each usage of each
\* group, every nonzero entry is an odd offset, and every call of
\* addHolesAtEnd made so far met its preconditions (target classes empty,
\* offsets odd, limit at most 6).
C28_HoleSets ==
  /\ OddHoles(layout.holes)
  /\ \A g \in 1..Len(layout.groups) :
       \A i \in 1..Len(layout.groups[g].parentDataLocationUsage) :
         OddHoles(layout.groups[g].parentDataLocationUsage[i].holes)
  /\ ~layout.dreq


\* The step is a call of Top::tryExpandData, which is holes.tryExpand
TopExpands == call'.op = "Top" /\ call'.fn = "tryExpandData"

\* The classes tryExpand(lg, off, k) would take holes from
ExpandClasses == call'.lgSize..(call'.lgSize + call'.factor - 1)

\* Each of them holds the hole next to the region as expanded so far
HasSiblings ==
  \A c \in ExpandClasses :
    /\ c < NumHoles
    /\ layout.holes[c + 1] = Shr(call'.offset, c - call'.lgSize) + 1

\* C29: HoleSet::tryExpand(lg, off, k) returns true if and only if for each
\* j in 0..k-1 the set holds a hole of class lg+j at offset (off >> j) + 1;
\* when it does exactly those k holes are removed, and when it does not the
\* set is left as it was.
C29_TryExpand ==
  [][TopExpands =>
       /\ result'.value = HasSiblings
       /\ layout'.holes = [i \in 1..NumHoles |->
                             IF HasSiblings /\ (i - 1) \in ExpandClasses
                               THEN 0 ELSE layout.holes[i]]]_vars

\* The step is a call of Top::addData, which starts with holes.tryAllocate
TopAdds == call'.op = "Top" /\ call'.fn = "addData"

\* The classes >= lg that hold a hole
HoleClasses == {c \in call'.lgSize..(NumHoles - 1) : layout.holes[c + 1] # 0}

SmallestClass == CHOOSE m \in HoleClasses : \A c \in HoleClasses : m <= c

GroupsOf(u) == {g \in 1..Len(layout.groups) : layout.groups[g].parent = u}

\* Group g has received a member: a field placed in it, or the discriminant,
\* a data location or a pointer location of a union declared in it
HasReceived(g) ==
  \/ \E m \in 1..Len(decl) :
       /\ members[m].exists
       /\ decl[m].kind = "field"
       /\ decl[m].type # Unread
       /\ members[m].fieldScope = g
  \/ \E v \in 1..Len(layout.unions) :
       /\ layout.unions[v].parent = g
       /\ \/ layout.unions[v].discriminantOffset # None
          \/ layout.unions[v].dataLocations # << >>
          \/ layout.unions[v].pointerLocations # << >>

\* The union's groups are counted once each, those that have received a member
CountsGroups ==
  \A u \in 1..Len(layout.unions) :
    /\ layout.unions[u].groupCount >= 2 => layout.unions[u].discriminantOffset # None
    /\ layout.unions[u].groupCount = Cardinality({g \in GroupsOf(u) : HasReceived(g)})
    /\ \A g \in GroupsOf(u) : layout.groups[g].hasMembers <=> HasReceived(g)

\* The discriminant union u gets when it is allocated first of all, from the
\* layout as it is
DiscriminantFirst(u) ==
  {addDiscriminant([layout EXCEPT !.unions[u].groupCount = 2], u, oobMatch)
     .L.unions[u].discriminantOffset : oobMatch \in BOOLEAN}

\* A step in which union u counts its second group
SecondVariant(u) ==
  /\ u <= Len(layout.unions)
  /\ layout.unions[u].groupCount = 1
  /\ layout'.unions[u].groupCount = 2
  /\ layout.unions[u].discriminantOffset = None

\* C31: in every state, a union whose groupCount is 2 or more has its
\* discriminant offset set; groupCount is the number of the union's groups
\* that have received a member (each group raises it once, with its first
\* member, void, data or pointer); and in the step in which the second
\* variant receives its first member the discriminant is allocated before
\* that member is placed: it gets the offset a 16-bit allocation from the
\* layout before the step gives.
C31_GroupCount ==
  /\ []CountsGroups
  /\ [][\A u \in 1..Len(layout'.unions) :
          SecondVariant(u) => layout'.unions[u].discriminantOffset \in DiscriminantFirst(u)]_vars

\* -------------------------------------------------------------------------
\* C32: the calls of a union's addDiscriminant

UnionsLaidOut == 1..Len(layout.unions)

HasDiscriminant(u) == layout.unions[u].discriminantOffset # None

\* The layout with the discriminant offset of union u taken away
WithoutDiscriminant(L, u) == [L EXCEPT !.unions[u].discriminantOffset = None]

\* The step allocated one 16-bit slot from the parent scope of union u, put
\* its offset in discriminantOffset, and did nothing else to the layout
OneSlot(u) ==
  \E oobMatch \in BOOLEAN :
    LET r == addData(layout, layout.unions[u].parent, 4, oobMatch) IN
    /\ WithoutDiscriminant(layout', u) = r.L
    /\ layout'.unions[u].discriminantOffset = r.res

\* The ordinal pass is at a union that carries an explicit ordinal
AtUnionOrdinal ==
  /\ phase = "run"
  /\ stack = << >>
  /\ pos <= Len(membersByOrdinal)
  /\ membersByOrdinal[pos].member # 0
  /\ decl[membersByOrdinal[pos].member].kind = "union"

UnionAtOrdinal == members[membersByOrdinal[pos].member].unionScope

Retroactive == "only one field retroactively unionized"

\* The step reported that the union's ordinal comes too late
ReportsRetroactive ==
  /\ Len(errors') > Len(errors)
  /\ errors'[Len(errors')].msg = Retroactive

\* finish: translate() is at its finishGroup calls
AtFinish == phase = "run" /\ stack = << >> /\ pos > Len(membersByOrdinal)

\* C32: in every step of a translation that ends without a failed assertion:
\* once a union's discriminant offset is set no call changes it; a call
\* of addDiscriminant from the union's explicit ordinal allocates one 16-bit
\* slot from the parent scope if the discriminant is not set yet (the call
\* returns true: nothing is reported) and otherwise leaves the layout as it
\* is and returns false (the ordinal is reported); the calls from
\* finalization of unions whose discriminant is set leave the layout as it
\* is, and the one of a single union without a discriminant allocates one
\* 16-bit slot.
C32_AddDiscriminant ==
  [][~failed' =>
       /\ \A u \in UnionsLaidOut :
            HasDiscriminant(u) =>
              layout'.unions[u].discriminantOffset = layout.unions[u].discriminantOffset
       /\ AtUnionOrdinal =>
            IF HasDiscriminant(UnionAtOrdinal)
              THEN layout' = layout /\ ReportsRetroactive
              ELSE OneSlot(UnionAtOrdinal) /\ ~ReportsRetroactive
       /\ AtFinish =>
            /\ (\A u \in UnionsLaidOut : HasDiscriminant(u)) => layout' = layout
            /\ \A u \in UnionsLaidOut :
                 (~HasDiscriminant(u) /\ \A v \in UnionsLaidOut \ {u} : HasDiscriminant(v))
                   => (layout' = layout \/ OneSlot(u))
     ]_vars

\* C32 witness: translation is over for a union whose discriminant was
\* allocated with its second variant and whose explicit ordinal, coming
\* later, was reported
C32_Witness ==
  /\ phase = "done"
  /\ \E i \in 1..Len(errors) : errors[i].msg = Retroactive
  /\ \E u \in UnionsLaidOut : layout.unions[u].groupCount >= 2 /\ HasDiscriminant(u)

\* -------------------------------------------------------------------------
\* C33: the data locations of a union

\* The first bit of a data location
StartBit(location) == location.offset * 2 ^ location.lgSize

\* Data location i of union u stays where it starts and does not shrink
Anchored(u, i) ==
  /\ StartBit(layout'.unions[u].dataLocations[i]) = StartBit(layout.unions[u].dataLocations[i])
  /\ layout'.unions[u].dataLocations[i].lgSize >= layout.unions[u].dataLocations[i].lgSize

\* What tryExpandTo(newLgSize) on data location i of union u does
ExpandsTo(u, i, newLgSize, oobMatch) ==
  LET location == layout.unions[u].dataLocations[i]
      r == tryExpandTo(layout, u, i, newLgSize, oobMatch)
  IN
  IF r.ok /\ newLgSize > location.lgSize
    THEN /\ r.L.unions[u].dataLocations[i] =
              [lgSize |-> newLgSize,
               offset |-> location.offset \div 2 ^ (newLgSize - location.lgSize)]
         /\ StartBit(r.L.unions[u].dataLocations[i]) = StartBit(location)
    ELSE r.L.unions = layout.unions

\* C33: in every step of a translation, every data location of every union
\* keeps its first bit (offset * 2^lgSize) and an lgSize at least as large as
\* before; and tryExpandTo(newLgSize) on a data location, for a newLgSize of
\* up to one word, when it succeeds with newLgSize > lgSize leaves it with
\* lgSize = newLgSize and the old offset shifted right by the difference, at
\* the same first bit, and when it fails or newLgSize <= lgSize leaves every
\* data location as it was.
C33_DataLocations ==
  [][/\ \A u \in 1..Len(layout.unions) :
          \A i \in 1..Len(layout.unions[u].dataLocations) : Anchored(u, i)
     /\ \A u \in 1..Len(layout.unions) :
          \A i \in 1..Len(layout.unions[u].dataLocations) :
            \A newLgSize \in 0..LgWord, oobMatch \in BOOLEAN :
              ExpandsTo(u, i, newLgSize, oobMatch)
    ]_vars

\* -------------------------------------------------------------------------
\* C34: where Group::addData places a field

\* The ordinal pass is at a field of a group (a union variant or a member of
\* one), and the step gives it lgSize bits of data
PlacesInGroup(lgSize) ==
  /\ phase = "run"
  /\ stack = << >>
  /\ pos <= Len(membersByOrdinal)
  /\ membersByOrdinal[pos].member # 0
  /\ decl[membersByOrdinal[pos].member].kind = "field"
  /\ members[membersByOrdinal[pos].member].fieldScope # TopScope
  /\ decl'[membersByOrdinal[pos].member].type = lgSize
  /\ ~failed'

FieldPlaced == membersByOrdinal[pos].member
GroupPlacedIn == members[FieldPlaced].fieldScope

\* The field placed by the step lies in data location i of its union
PlacedIn(i, lgSize) ==
  LET location == layout'.unions[layout.groups[GroupPlacedIn].parent].dataLocations[i]
      offset == members'[FieldPlaced].schema.offset
  IN /\ lgSize <= location.lgSize
     /\ offset \div 2 ^ (location.lgSize - lgSize) = location.offset

\* The locations and usages the group has before the field is placed: after
\* addVoid() (L), and with a default usage for every location not seen yet
Locations(L) == L.unions[L.groups[GroupPlacedIn].parent].dataLocations
Usages(L) == padUsage(L.groups[GroupPlacedIn].parentDataLocationUsage, Len(Locations(L)))

\* L with those usages added to the group
Seen(L) == [L EXCEPT !.groups[GroupPlacedIn].parentDataLocationUsage = Usages(L)]

HoleIn(L, i, lgSize) == smallestHoleAtLeast(Usages(L)[i], Locations(L)[i], lgSize)

Fits(L, lgSize) == {i \in 1..Len(Locations(L)) : HoleIn(L, i, lgSize) # None}

\* The location whose hole is numerically smallest, the lowest index on ties
BestFit(L, lgSize) ==
  CHOOSE i \in Fits(L, lgSize) :
    \A j \in Fits(L, lgSize) :
      \/ HoleIn(L, i, lgSize) < HoleIn(L, j, lgSize)
      \/ HoleIn(L, i, lgSize) = HoleIn(L, j, lgSize) /\ i <= j

\* Location i and the group's usage of it are as they were in L
Untouched(L, i) ==
  /\ Locations(layout')[i] = Locations(L)[i]
  /\ layout'.groups[GroupPlacedIn].parentDataLocationUsage[i] = Usages(L)[i]

\* The three cases of Group::addData, L being the layout after addVoid()
AddsData(L, lgSize, oobMatch) ==
  IF Fits(L, lgSize) # {}
    THEN \* a hole: the best location takes the field, nothing is expanded or added
         /\ PlacedIn(BestFit(L, lgSize), lgSize)
         /\ Locations(layout') = Locations(L)
         /\ \A i \in 1..Len(Locations(L)) \ {BestFit(L, lgSize)} : Untouched(L, i)
  ELSE IF Len(Locations(layout')) = Len(Locations(L))
    THEN \* no hole: the first location that can be expanded takes the field
         \E k \in 1..Len(Locations(L)) :
           /\ PlacedIn(k, lgSize)
           /\ \A i \in 1..(k - 1) :
                /\ Untouched(L, i)
                /\ tryAllocateByExpanding(Seen(L), GroupPlacedIn, i, lgSize, oobMatch).res = None
    ELSE \* no hole and no expansion: a new location of the field's size
         /\ Len(Locations(layout')) = Len(Locations(L)) + 1
         /\ Locations(layout')[Len(Locations(layout'))] =
              [lgSize |-> lgSize, offset |-> members'[FieldPlaced].schema.offset]
         /\ \A i \in 1..Len(Locations(L)) :
              /\ Untouched(L, i)
              /\ tryAllocateByExpanding(Seen(L), GroupPlacedIn, i, lgSize, oobMatch).res = None

\* C34: in a step that ends without a failed assertion,
\* Group.addData(lg) places the field in the existing data location of
\* the union whose smallestHoleAtLeast result is smallest, the lowest index
\* on ties, expanding and adding nothing; if no location reports a hole it
\* places it in the first location, in index order, that can be expanded;
\* and if none can it places it in a new data location of exactly lg.
C34_GroupAddData ==
  [][\A lgSize \in DataSizes :
       PlacesInGroup(lgSize) =>
         \E oobMatch \in BOOLEAN :
           AddsData(addVoid(layout, GroupPlacedIn, oobMatch), lgSize, oobMatch)]_vars

\* C34 witness: a field has been placed in the second data location of its
\* union while the group had not used the first, a larger one
C34_Witness ==
  \E g \in 1..Len(layout.groups) :
    LET usages == layout.groups[g].parentDataLocationUsage
        locations == layout.unions[layout.groups[g].parent].dataLocations
    IN /\ Len(usages) >= 2
       /\ ~usages[1].isUsed
       /\ usages[2].isUsed
       /\ locations[1].lgSize > locations[2].lgSize

\* -------------------------------------------------------------------------
\* C35: the pointer locations of a union

\* The ordinal pass is at a field of a Group, and the step gives it a pointer
PlacesPointer ==
  /\ phase = "run"
  /\ stack = << >>
  /\ pos <= Len(membersByOrdinal)
  /\ membersByOrdinal[pos].member # 0
  /\ decl[membersByOrdinal[pos].member].kind = "field"
  /\ members[membersByOrdinal[pos].member].fieldScope # TopScope
  /\ decl'[membersByOrdinal[pos].member].type = LgPointer
  /\ ~failed'

\* The pointer locations of the union of the group the field is placed in,
\* and how many of them the group has taken
PointerLocations(L) == L.unions[layout.groups[GroupPlacedIn].parent].pointerLocations
PointersTaken(L) == L.groups[GroupPlacedIn].parentPointerLocationUsage

\* The pointer fields placed with group g as their scope
PointerFields(g) ==
  {m \in 1..Len(decl) : /\ members[m].exists
                        /\ decl[m].kind = "field"
                        /\ decl[m].type = LgPointer
                        /\ members[m].fieldScope = g}

PlacesVoid ==
  /\ phase = "run"
  /\ stack = << >>
  /\ pos <= Len(membersByOrdinal)
  /\ membersByOrdinal[pos].member # 0
  /\ decl[membersByOrdinal[pos].member].kind = "field"
  /\ decl'[membersByOrdinal[pos].member].type = LgVoid
  /\ ~failed'

\* The union of the Group the field is placed in
UnionPlacedIn == layout.groups[GroupPlacedIn].parent

\* C36: in a step that ends without a failed assertion, a void field gets
\* offset 0; in the Top scope it changes nothing of the layout; as the first
\* member of a union variant it raises the union's group count by one, and
\* when that makes two the union's discriminant is set in the same step; as a
\* later member of the variant it changes nothing of the layout.
C36_VoidField ==
  [][PlacesVoid =>
       /\ members'[FieldPlaced].schema.offset = 0
       /\ IF GroupPlacedIn = TopScope
            THEN layout' = layout
          ELSE IF layout.groups[GroupPlacedIn].hasMembers
            THEN layout' = layout
          ELSE /\ layout'.groups[GroupPlacedIn].hasMembers
               /\ layout'.unions[UnionPlacedIn].groupCount =
                    layout.unions[UnionPlacedIn].groupCount + 1
               /\ layout'.unions[UnionPlacedIn].groupCount = 2
                    => layout'.unions[UnionPlacedIn].discriminantOffset # None
               /\ layout'.unions[UnionPlacedIn].dataLocations =
                    layout.unions[UnionPlacedIn].dataLocations
               /\ layout'.unions[UnionPlacedIn].pointerLocations =
                    layout.unions[UnionPlacedIn].pointerLocations]_vars

\* C36 witness: the second variant of a union is a void field, placed after
\* a field of the first variant; the union counts two groups and has its
\* discriminant
C36_Witness ==
  \E u \in 1..Len(layout.unions) :
    /\ layout.unions[u].groupCount = 2
    /\ layout.unions[u].discriminantOffset # None
    /\ \E m \in 1..Len(decl) :
         /\ members[m].exists
         /\ decl[m].kind = "field"
         /\ decl[m].type = LgVoid
         /\ members[m].fieldScope \in GroupsOf(u)
         /\ members[m].schema.offset = 0
         /\ \E n \in 1..Len(decl) :
              /\ members[n].exists
              /\ decl[n].kind = "field"
              /\ decl[n].type # Unread
              /\ members[n].fieldScope \in GroupsOf(u) \ {members[m].fieldScope}
              /\ decl[n].ord < decl[m].ord

\* -------------------------------------------------------------------------
\* C37: the members the ordinal pass visits

\* The member is a field, or a union that carries an explicit ordinal
HasOrdinal(m) ==
  /\ m # 0
  /\ \/ decl[m].kind = "field"
     \/ decl[m].kind = "union" /\ decl[m].ord # None

\* C37: membersByOrdinal holds only fields and unions that carry an explicit
\* ordinal (never a group, never the root), whatever the declaration, so the
\* ordinal pass never reaches "Groups don't have ordinals." or the root's
\* getSchema().
C37_MembersByOrdinal ==
  \A i \in 1..Len(membersByOrdinal) : HasOrdinal(membersByOrdinal[i].member)

\* -------------------------------------------------------------------------
\* C38: the first member laid out in a union

\* The declarations nested in union u, at any depth
NestedIn(u) == {k \in 1..Len(decl) : u \in Enclosing(k)}

\* Field m is a member of union u itself and carries the lowest ordinal
\* found in u, and the union's own ordinal, if any, is higher
FirstLaidOut(u, m) ==
  /\ IsUnion(u)
  /\ decl[m].kind = "field"
  /\ decl[m].parent = u
  /\ \A k \in NestedIn(u) \ {m} : decl[k].ord # None => decl[k].ord > decl[m].ord
  /\ decl[u].ord # None => decl[u].ord > decl[m].ord

\* The declaration in which m is a plain field of the scope enclosing u: u and
\* its other members are taken away
Unwrapped(u, m) ==
  LET kept == {k \in 1..Len(decl) : k = m \/ ~Within(k, u)}
      Index(k) == Cardinality({j \in kept : j <= k})
      Parent(k) == IF k = m THEN decl[u].parent ELSE decl[k].parent
  IN [i \in 1..Cardinality(kept) |->
        LET k == CHOOSE j \in kept : Index(j) = i IN
        [decl[k] EXCEPT !.parent = IF Parent(k) = 0 THEN 0 ELSE Index(Parent(k))]]

\* The member of Unwrapped(u, m) that stands for member k of decl
UnwrappedIndex(u, m, k) ==
  Cardinality({j \in 1..k : j = m \/ ~Within(j, u)})

\* The translation of the unwrapped declaration gives m, and every field of
\* a lower ordinal, the offset they have here
SameAsPlain(u, m) ==
  LET S == translate(Unwrapped(u, m)) IN
  \A k \in 1..Len(decl) :
    (/\ decl[k].kind = "field"
     /\ members[k].exists
     /\ decl[k].ord <= decl[m].ord)
      => S.members[UnwrappedIndex(u, m, k)].schema.offset = members[k].schema.offset

\* C38: the field with the lowest ordinal in a union, the union's own ordinal
\* being higher, gets the offset it gets as a plain field of the enclosing
\* scope at the same ordinal: the struct in which the union is replaced by
\* that field gives it, and every field of a lower ordinal, the same offset.
C38_FirstInUnion ==
  phase = "done" =>
    \A u \in 1..Len(decl), m \in 1..Len(decl) : FirstLaidOut(u, m) => SameAsPlain(u, m)

\* C38 witness: a translated struct in which a 16-bit field is the first
\* laid out in a union, after an 8-bit field of the enclosing scope and
\* before the union's other variant, and lies at bits [16,32)
C38_Witness ==
  /\ phase = "done"
  /\ NoErrors
  /\ \E u \in 1..Len(decl), m \in 1..Len(decl) :
       /\ FirstLaidOut(u, m)
       /\ decl[m].type = 4
       /\ decl[m].ord = 1
       /\ members[m].schema.offset = 1
       /\ \E k \in 1..Len(decl) :
            decl[k].kind = "field" /\ decl[k].parent = decl[u].parent
            /\ decl[k].ord = 0 /\ decl[k].type = 3
       /\ \E k \in NestedIn(u) \ {m} : decl[k].kind = "field" /\ decl[k].type \in DataSizes

\* -------------------------------------------------------------------------
\* C39: the field list of a node

\* The nodes emitted: the struct (member 0) and the groups
Nodes == {0} \cup GroupNodes

\* Member k has its entry in the field list of the node of p, at its index
HasEntry(p, k) ==
  /\ members[k].hasSchema
  /\ members[k].index < members[p].childCount
  /\ members[p].node.hasFields
  /\ members[p].node.fields[members[k].index + 1] = k

\* The ordinals of member v and of the members declared in it
OrdinalsHeld(v) ==
  {decl[k].ord : k \in {j \in 1..Len(decl) : Within(j, v) /\ members[j].exists}} \ {None}

\* Member j comes before member k by the lowest ordinal found in each (a
\* member that holds no ordinal comes after those that hold one)
LowerOrdinal(j, k) ==
  /\ OrdinalsHeld(j) # {}
  /\ \E o \in OrdinalsHeld(j) : \A q \in OrdinalsHeld(k) : o < q

\* C39: the number of initialised entries of a node's field list never
\* exceeds the number of its members; when translation ends the two are
\* equal, every member has exactly one entry, the entries are in ascending
\* order of the lowest ordinal found in each member, and each entry keeps
\* the member's code-order index.
C39_FieldList ==
  /\ \A p \in Nodes : members[p].childInitializedCount <= members[p].childCount
  /\ phase = "done" =>
       \A p \in Nodes :
         /\ members[p].childInitializedCount = members[p].childCount
         /\ members[p].childCount = Cardinality(MembersOf(p))
         /\ \A k \in MembersOf(p) : HasEntry(p, k)
         /\ \A j \in MembersOf(p), k \in MembersOf(p) :
              /\ j # k => members[j].index # members[k].index
              /\ LowerOrdinal(j, k) => members[j].index < members[k].index
         /\ \A k \in MembersOf(p) :
              members[k].schema.codeOrder = Cardinality({j \in MembersOf(p) : j < k})

\* C39 witness: a translated struct whose root has three regular fields
\* declared in another order than that of their ordinals
C39_Witness ==
  /\ phase = "done"
  /\ NoErrors
  /\ members[0].childCount = 3
  /\ \E j \in MembersOf(0), k \in MembersOf(0) :
       /\ decl[j].kind = "field" /\ decl[k].kind = "field"
       /\ j < k
       /\ decl[j].ord > decl[k].ord
       /\ members[j].index > members[k].index
       /\ members[j].schema.codeOrder < members[k].schema.codeOrder

\* -------------------------------------------------------------------------
\* C40

\* The four fields u8 a, u64 b, u16 c, u32 d have all been placed and the
\* translation has finished.
FourPlaced == phase = "done" /\ FourFields

\* a at bits [0,8), b in word 1, c at bit 16, d at bit 32.
PlacedAsStated ==
  /\ BitOffsetOf(0) = 0
  /\ BitOffsetOf(1) = 64
  /\ BitOffsetOf(2) = 16
  /\ BitOffsetOf(3) = 32

\* C40 as stated: after u8 a, u64 b, u16 c, u32 d are placed in that order
\* into an empty struct, the struct has 2 data words and the top-level hole
\* set records no hole.
C40_NoHole ==
  FourPlaced =>
    /\ PlacedAsStated
    /\ layout.dataWordCount = 2
    /\ layout.holes = EmptyHoles

\* C40: after u8 a, u64 b, u16 c, u32 d are placed in that order into an
\* empty struct (a at bits [0,8), b in word 1, c in the 16-bit hole at bit
\* 16, d in the 32-bit hole at bit 32), the struct has 2 data words and the
\* top-level hole set records exactly one hole, the 8-bit hole at bits
\* [8,16): holes[3] = 1 and every other entry is 0.
C40_OneHole ==
  FourPlaced =>
    /\ PlacedAsStated
    /\ layout.dataWordCount = 2
    /\ layout.holes = [EmptyHoles EXCEPT ![3 + 1] = 1]

C40_Witness ==
  /\ FourPlaced
  /\ NoErrors
  /\ layout.dataWordCount = 2
  /\ layout.holes[3 + 1] = 1

====
